---- MODULE Spec2Model ----
(***************************************************************************)
(* Model of the bird-finder species resolution and scoring engine          *)
(* (src/ebird_client.py, src/mistral_client.py, src/app.py).               *)
(*                                                                         *)
(* Strings are sequences of one-character strings, so that lower(),        *)
(* strip(), split() and the `in` substring test are computed, not assumed. *)
(* Python's None is the record None, a present value v is Some(v).         *)
(* A float is modelled by the exact rational value of the expression that  *)
(* computes it; a dict by the sequence of its items in insertion order.    *)
(***************************************************************************)
EXTENDS Integers, Sequences, FiniteSets, TLC

\* ------------------------------------------------------------------ bounds
MaxTax == 2
NThreads == 2
MaxCalls == 3
MaxObs == 2
MaxYearsBack == 2
MaxFaulty == 2

VARIABLES
    taxonomy_cache,  \* the module global _taxonomy_cache: None or Some(list of dicts)
    remote,          \* environment: the taxonomy rows the eBird service holds
    has_key,         \* environment: whether EBIRD_API_KEY is configured
    callers,         \* the threads that call get_species_code
    budget,          \* how many calls each caller makes
    pc,              \* per thread: "idle", "load" (between line 40 and line 50), "done"
    calls,           \* per thread: calls started so far
    arg,             \* per thread: the arguments (bird_name, scientific_name) of its calls
    ret,             \* per thread: what _load_taxonomy returned in the last call
    outcome,         \* per thread: whether the last call's fetch went through
    code,            \* per thread: what get_species_code returned in the last call
    fetches,         \* number of requests.get calls on the taxonomy URL so far
    assigns,         \* number of assignments to _taxonomy_cache so far
    observations,    \* environment: the records the observation endpoint returns
    today,           \* datetime.now() of the observation call
    days_back,
    years_back,
    opc,             \* observation call: "start" or "done"
    via,             \* which of get_observations_by_coords / _by_region was called
    ofetch,          \* whether the observation request went through
    filtered,        \* what get_observations_by_* returned
    bird_suggestions,    \* the candidate list handed to calculate_probabilities
    location,            \* the location dictionary (None when the caller has none)
    sightings,           \* environment: the records the service holds per species code
    network,             \* environment: "up", or "flaky" when requests can fail
    llm_weight,          \* the slider value of main
    ebird_weight,
    spc,                 \* scoring: "off", "start", "loop", "counted", "scored", "done"
    idx,                 \* scoring: position of the loop of line 421 in bird_list
    observation_counts,  \* the dict built by the loop of lines 421-455
    log,                 \* per loop iteration: what resolution and fetch came to
    probabilities,       \* what calculate_probabilities returned (or raised)
    llm_ranks,           \* the dict built by main, lines 366-370
    combined_scores,     \* what calculate_combined_scores returned
    sorted_results,      \* the list of main, lines 392-396
    description,         \* the text the user typed
    mistral_key,         \* environment: whether MISTRAL_API_KEY is configured
    mpc,                 \* suggestions: "off", "submit", "start", "loop", "ended",
                         \* "taken", "rejected"
    midx,                \* position of the loop of line 81 in models_to_try
    posts,               \* the requests.post calls so far: model and outcome
    mistral_result       \* what get_bird_suggestions returned (or raised)

loadVars == <<taxonomy_cache, remote, has_key, callers, budget, pc, calls, arg, ret,
              outcome, code, fetches, assigns>>
obsVars == <<observations, today, days_back, years_back, opc, via, ofetch, filtered>>
scoreVars == <<bird_suggestions, location, sightings, network, llm_weight, ebird_weight,
               spc, idx, observation_counts, log, probabilities, llm_ranks,
               combined_scores, sorted_results>>
suggestVars == <<description, mistral_key, mpc, midx, posts, mistral_result>>
vars == <<taxonomy_cache, remote, has_key, callers, budget, pc, calls, arg, ret,
          outcome, code, fetches, assigns, observations, today, days_back, years_back, opc,
          via, ofetch, filtered, bird_suggestions, location, sightings, network,
          llm_weight, ebird_weight, spc, idx, observation_counts, log, probabilities,
          llm_ranks, combined_scores, sorted_results, description, mistral_key, mpc,
          midx, posts, mistral_result>>

\* ------------------------------------------------------------ Python values
None == [tag |-> "None"]
Some(v) == [tag |-> "Some", val |-> v]

\* ------------------------------------------------------------------ strings
UpperLetters ==
    <<"A", "B", "C", "D", "E", "F", "G", "H", "I", "J", "K", "L", "M",
      "N", "O", "P", "Q", "R", "S", "T", "U", "V", "W", "X", "Y", "Z">>
LowerLetters ==
    <<"a", "b", "c", "d", "e", "f", "g", "h", "i", "j", "k", "l", "m",
      "n", "o", "p", "q", "r", "s", "t", "u", "v", "w", "x", "y", "z">>

LowerChar(c) ==
    IF \E i \in DOMAIN UpperLetters : UpperLetters[i] = c
    THEN LowerLetters[CHOOSE i \in DOMAIN UpperLetters : UpperLetters[i] = c]
    ELSE c

\* str.lower()
Lower(s) == [i \in 1..Len(s) |-> LowerChar(s[i])]

IsSpace(c) == c \in {" ", "\t", "\n"}

RECURSIVE LStrip(_)
LStrip(s) == IF s # <<>> /\ IsSpace(Head(s)) THEN LStrip(Tail(s)) ELSE s

RECURSIVE RStrip(_)
RStrip(s) ==
    IF s # <<>> /\ IsSpace(s[Len(s)]) THEN RStrip(SubSeq(s, 1, Len(s) - 1)) ELSE s

\* str.strip()
Strip(s) == RStrip(LStrip(s))

\* Python's `needle in hay` on strings (the empty string is in every string)
Contains(hay, needle) ==
    \E i \in 0..(Len(hay) - Len(needle)) : SubSeq(hay, i + 1, i + Len(needle)) = needle

\* ------------------------------------------------- get_species_code helpers
ComNameFields == <<"comName", "COMMON_NAME", "common_name", "Common Name", "commonName">>
SciNameFields == <<"sciName", "SCIENTIFIC_NAME", "scientific_name", "Scientific Name", "sciName">>
SpeciesCodeFields == <<"speciesCode", "SPECIES_CODE", "species_code", "Species Code", "speciesCode">>

\* for field in [...]: if field in species and species[field]: return str(species[field])
RECURSIVE FirstField(_, _)
FirstField(species, fields) ==
    IF fields = <<>> THEN <<>>
    ELSE IF Head(fields) \in DOMAIN species /\ species[Head(fields)] # <<>>
         THEN species[Head(fields)]
         ELSE FirstField(species, Tail(fields))

get_com_name(species) == FirstField(species, ComNameFields)
get_sci_name(species) == FirstField(species, SciNameFields)
get_species_code_field(species) == FirstField(species, SpeciesCodeFields)

\* Strategy 1: the first entry whose lower-cased common name equals the input and
\* that has a species code
\* (ExactCommonAnyCode is the variant without the test `if code:` of line 153.)
RECURSIVE ExactCommonAnyCode(_, _)
ExactCommonAnyCode(taxonomy, bird_name_lower) ==
    IF taxonomy = <<>> THEN None
    ELSE LET species == Head(taxonomy)
             com_name == Lower(get_com_name(species))
         IN  IF com_name = bird_name_lower
             THEN Some(get_species_code_field(species))
             ELSE ExactCommonAnyCode(Tail(taxonomy), bird_name_lower)

RECURSIVE ExactCommon(_, _)
ExactCommon(taxonomy, bird_name_lower) ==
    IF taxonomy = <<>> THEN None
    ELSE LET species == Head(taxonomy)
             com_name == Lower(get_com_name(species))
         IN  IF com_name = bird_name_lower /\ get_species_code_field(species) # <<>>
             THEN Some(get_species_code_field(species))
             ELSE ExactCommon(Tail(taxonomy), bird_name_lower)

\* Strategy 2 (inside `if scientific_name_lower:`)
RECURSIVE ExactScientific(_, _)
ExactScientific(taxonomy, scientific_name_lower) ==
    IF taxonomy = <<>> THEN None
    ELSE LET species == Head(taxonomy)
             sci_name == Lower(get_sci_name(species))
         IN  IF sci_name = scientific_name_lower /\ get_species_code_field(species) # <<>>
             THEN Some(get_species_code_field(species))
             ELSE ExactScientific(Tail(taxonomy), scientific_name_lower)

\* Strategy 3, the loop: matches.append((len(com_name), code, com_name))
RECURSIVE PartialMatches(_, _)
PartialMatches(taxonomy, bird_name_lower) ==
    IF taxonomy = <<>> THEN <<>>
    ELSE LET species == Head(taxonomy)
             com_name == Lower(get_com_name(species))
             rest == PartialMatches(Tail(taxonomy), bird_name_lower)
         IN  IF (Contains(com_name, bird_name_lower) \/ Contains(bird_name_lower, com_name))
                /\ get_species_code_field(species) # <<>>
             THEN <<<<Len(com_name), get_species_code_field(species), com_name>>>> \o rest
             ELSE rest

\* list.sort(reverse=True, key=lambda x: x[0]): stable, so among equal keys the
\* original order is kept. Insert x behind every element whose key is >= its key.
\* (InsertDescendingLast is the unstable variant: the last of equal keys first.)
InsertDescendingLast(sorted, x) ==
    LET k == Cardinality({i \in DOMAIN sorted : sorted[i][1] > x[1]})
    IN  SubSeq(sorted, 1, k) \o <<x>> \o SubSeq(sorted, k + 1, Len(sorted))

InsertDescending(sorted, x) ==
    LET k == Cardinality({i \in DOMAIN sorted : sorted[i][1] >= x[1]})
    IN  SubSeq(sorted, 1, k) \o <<x>> \o SubSeq(sorted, k + 1, Len(sorted))

RECURSIVE SortReverse(_, _)
SortReverse(sorted, todo) ==
    IF todo = <<>> THEN sorted
    ELSE SortReverse(InsertDescending(sorted, Head(todo)), Tail(todo))

\* Strategy 3, the choice: if matches: matches.sort(...); return matches[0][1]
PartialCommon(taxonomy, bird_name_lower) ==
    LET matches == SortReverse(<<>>, PartialMatches(taxonomy, bird_name_lower))
    IN  IF matches # <<>> THEN Some(matches[1][2]) ELSE None

\* Strategy 4 (inside `if scientific_name_lower:`)
RECURSIVE PartialScientific(_, _)
PartialScientific(taxonomy, scientific_name_lower) ==
    IF taxonomy = <<>> THEN None
    ELSE LET species == Head(taxonomy)
             sci_name == Lower(get_sci_name(species))
         IN  IF (Contains(sci_name, scientific_name_lower)
                    \/ Contains(scientific_name_lower, sci_name))
                /\ get_species_code_field(species) # <<>>
             THEN Some(get_species_code_field(species))
             ELSE PartialScientific(Tail(taxonomy), scientific_name_lower)

\* get_species_code from line 145 on, for a non-empty taxonomy list.
\* (ResolvePartialFirst is the variant that tries the common-name substring
\* strategy before the exact ones; ResolvePartialBeforeScientific the one that
\* swaps strategies 2 and 3.)
ResolvePartialFirst(taxonomy, bird_name, scientific_name) ==
    LET bird_name_lower == Strip(Lower(bird_name))
        scientific_name_lower ==
            IF scientific_name # <<>> THEN Strip(Lower(scientific_name)) ELSE <<>>
        s1 == ExactCommon(taxonomy, bird_name_lower)
        s2 == IF scientific_name_lower # <<>>
              THEN ExactScientific(taxonomy, scientific_name_lower) ELSE None
        s3 == PartialCommon(taxonomy, bird_name_lower)
        s4 == IF scientific_name_lower # <<>>
              THEN PartialScientific(taxonomy, scientific_name_lower) ELSE None
    IN  IF s3 # None THEN s3
        ELSE IF s1 # None THEN s1
        ELSE IF s2 # None THEN s2
        ELSE s4

ResolvePartialBeforeScientific(taxonomy, bird_name, scientific_name) ==
    LET bird_name_lower == Strip(Lower(bird_name))
        scientific_name_lower ==
            IF scientific_name # <<>> THEN Strip(Lower(scientific_name)) ELSE <<>>
        s1 == ExactCommon(taxonomy, bird_name_lower)
        s2 == IF scientific_name_lower # <<>>
              THEN ExactScientific(taxonomy, scientific_name_lower) ELSE None
        s3 == PartialCommon(taxonomy, bird_name_lower)
        s4 == IF scientific_name_lower # <<>>
              THEN PartialScientific(taxonomy, scientific_name_lower) ELSE None
    IN  IF s1 # None THEN s1
        ELSE IF s3 # None THEN s3
        ELSE IF s2 # None THEN s2
        ELSE s4

Resolve(taxonomy, bird_name, scientific_name) ==
    LET bird_name_lower == Strip(Lower(bird_name))
        scientific_name_lower ==
            IF scientific_name # <<>> THEN Strip(Lower(scientific_name)) ELSE <<>>
        s1 == ExactCommon(taxonomy, bird_name_lower)
        s2 == IF scientific_name_lower # <<>>
              THEN ExactScientific(taxonomy, scientific_name_lower) ELSE None
        s3 == PartialCommon(taxonomy, bird_name_lower)
        s4 == IF scientific_name_lower # <<>>
              THEN PartialScientific(taxonomy, scientific_name_lower) ELSE None
    IN  IF s1 # None THEN s1
        ELSE IF s2 # None THEN s2
        ELSE IF s3 # None THEN s3
        ELSE s4

\* ------------------------------------------------------------ _load_taxonomy
Threads == 1..NThreads

\* What the service holds, as the body of a response: CSV cells are always present
\* (possibly empty), JSON omits the keys that have no value.
CsvRow(e) == [COMMON_NAME |-> e.com, SCIENTIFIC_NAME |-> e.sci, SPECIES_CODE |-> e.code]

JsonRow(e) ==
    LET v == [comName |-> e.com, sciName |-> e.sci, speciesCode |-> e.code]
    IN  [k \in {f \in DOMAIN v : v[f] # <<>>} |-> v[k]]

TaxonomyBody(r) ==
    [fmt |-> r.fmt,
     rows |-> [i \in DOMAIN r.rows |->
                  IF r.fmt = "csv" THEN CsvRow(r.rows[i]) ELSE JsonRow(r.rows[i])]]

\* What a taxonomy request can come to: an exception out of requests.get or
\* raise_for_status, or a response with some body.
FetchOutcomes(r) ==
    {[kind |-> "raise", exc |-> x] :
        x \in {"Timeout", "HTTPError", "ConnectionError", "RuntimeError"}}
    \cup {[kind |-> "response", body |-> b] :
            b \in {TaxonomyBody(r),
                   [fmt |-> "empty", rows |-> <<>>],
                   [fmt |-> "blank", rows |-> <<>>],
                   [fmt |-> "text", rows |-> <<>>],
                   [fmt |-> "nul", rows |-> <<>>],
                   [fmt |-> "json_object", rows |-> <<>>]}}

\* The exception classes of an exception, most derived first
Classes(exc) ==
    CASE exc = "Timeout" -> {"Timeout", "RequestException", "Exception"}
      [] exc = "HTTPError" -> {"HTTPError", "RequestException", "Exception"}
      [] exc = "ConnectionError" -> {"ConnectionError", "RequestException", "Exception"}
      [] exc = "ValueError" -> {"ValueError", "Exception"}
      [] exc = "IndexError" -> {"IndexError", "Exception"}
      [] OTHER -> {exc, "Exception"}

Raised(exc) == [tag |-> "Raised", exc |-> exc]

\* The except clauses of the outer try: every one of them returns None
LoadHandlersNoCatchAll == {"Timeout", "HTTPError", "RequestException"}

LoadHandlers == {"Timeout", "HTTPError", "RequestException", "Exception"}

\* csv.DictReader(StringIO(response.text)): the rows after the header line; a body
\* of one line has none. csv.Error (a NUL in the text) is caught and passed over.
CsvParse(body) == IF body.fmt = "csv" THEN body.rows ELSE <<>>

\* response.json(): the value with its Python type, or ValueError (caught and
\* passed over)
JsonParse(body) ==
    IF body.fmt = "json" THEN Some([type |-> "list", items |-> body.rows])
    ELSE IF body.fmt = "json_object" THEN Some([type |-> "dict", items |-> <<>>])
    ELSE Raised("ValueError")

\* Lines 45-105 for one outcome of the request: what is returned (ret) and what,
\* if anything, is assigned to _taxonomy_cache (store)
LoadResult(o) ==
    IF o.kind = "raise"
    THEN [ret |-> IF Classes(o.exc) \cap LoadHandlers # {} THEN None ELSE Raised(o.exc),
          store |-> None]
    ELSE IF o.body.fmt \in {"empty", "blank"}
         THEN [ret |-> None, store |-> None]
         ELSE IF CsvParse(o.body) # <<>>
              THEN [ret |-> Some(CsvParse(o.body)), store |-> Some(CsvParse(o.body))]
              ELSE LET taxonomy == JsonParse(o.body)
                   IN  IF taxonomy.tag = "Some" /\ taxonomy.val.type = "list"
                          /\ Len(taxonomy.val.items) > 0
                       THEN [ret |-> Some(taxonomy.val.items),
                             store |-> Some(taxonomy.val.items)]
                       ELSE [ret |-> None, store |-> None]

\* get_species_code, lines 122-190, once _load_taxonomy has returned `loaded`
AfterLoad(loaded, a) ==
    IF loaded.tag = "Raised" THEN loaded
    ELSE IF loaded = None \/ loaded.val = <<>> THEN None
    ELSE Resolve(loaded.val, a.bird_name, a.scientific_name)

NotCalled == [tag |-> "NotCalled"]

\* The cache test of line 33
CacheHitNever(cache) == FALSE

CacheHit(cache) == cache # None

\* The test of line 119: `not bird_name or not bird_name.strip()`
\* (NameIsEmptyUnstripped is the variant that forgets the strip.)
NameIsEmptyUnstripped(bird_name) == bird_name = <<>>

NameIsEmpty(bird_name) == bird_name = <<>> \/ Strip(bird_name) = <<>>

\* A call of get_species_code up to the taxonomy request: the empty-name test of
\* line 119, the cache test of line 33 and the API key of line 37. A call that does
\* not need the network runs to its return here.
Enter(t) ==
    /\ t \in callers
    /\ pc[t] \in {"idle", "done"}
    /\ calls[t] < budget
    /\ calls' = [calls EXCEPT ![t] = @ + 1]
    /\ IF NameIsEmpty(arg[t].bird_name)
       THEN /\ pc' = [pc EXCEPT ![t] = "done"]
            /\ ret' = [ret EXCEPT ![t] = NotCalled]
            /\ outcome' = [outcome EXCEPT ![t] = "none"]
            /\ code' = [code EXCEPT ![t] = None]
       ELSE IF CacheHit(taxonomy_cache)
       THEN /\ pc' = [pc EXCEPT ![t] = "done"]
            /\ ret' = [ret EXCEPT ![t] = taxonomy_cache]
            /\ outcome' = [outcome EXCEPT ![t] = "cached"]
            /\ code' = [code EXCEPT ![t] = AfterLoad(taxonomy_cache, arg[t])]
       ELSE IF ~has_key
       THEN /\ pc' = [pc EXCEPT ![t] = "done"]
            /\ ret' = [ret EXCEPT ![t] = None]
            /\ outcome' = [outcome EXCEPT ![t] = "failed"]
            /\ code' = [code EXCEPT ![t] = AfterLoad(None, arg[t])]
       ELSE /\ pc' = [pc EXCEPT ![t] = "load"]
            /\ outcome' = [outcome EXCEPT ![t] = "none"]
            /\ UNCHANGED <<ret, code>>
    /\ UNCHANGED <<taxonomy_cache, remote, has_key, callers, budget, arg, fetches, assigns>>
    /\ UNCHANGED obsVars
    /\ UNCHANGED suggestVars
    /\ UNCHANGED scoreVars

\* The request of line 50 and everything after it: parse, assign the cache, return
\* to get_species_code, resolve.
Load(t) ==
    /\ pc[t] = "load"
    /\ \E o \in FetchOutcomes(remote) :
         LET r == LoadResult(o)
         IN  /\ fetches' = fetches + 1
             /\ taxonomy_cache' = IF r.store # None THEN r.store ELSE taxonomy_cache
             /\ assigns' = IF r.store # None THEN assigns + 1 ELSE assigns
             /\ ret' = [ret EXCEPT ![t] = r.ret]
             /\ outcome' = [outcome EXCEPT ![t] = IF r.store # None THEN "ok" ELSE "failed"]
             /\ code' = [code EXCEPT ![t] = AfterLoad(r.ret, arg[t])]
    /\ pc' = [pc EXCEPT ![t] = "done"]
    /\ UNCHANGED <<remote, has_key, callers, budget, calls, arg>>
    /\ UNCHANGED obsVars
    /\ UNCHANGED suggestVars
    /\ UNCHANGED scoreVars

NextLoad == \E t \in Threads : Enter(t) \/ Load(t)

\* ------------------------------------------------------------------- dates
IsLeap(y) == (y % 4 = 0 /\ y % 100 # 0) \/ y % 400 = 0

DaysInMonth(y, m) ==
    IF m = 2 THEN (IF IsLeap(y) THEN 29 ELSE 28)
    ELSE IF m \in {4, 6, 9, 11} THEN 30 ELSE 31

RECURSIVE DaysBeforeMonth(_, _)
DaysBeforeMonth(y, m) ==
    IF m = 1 THEN 0 ELSE DaysBeforeMonth(y, m - 1) + DaysInMonth(y, m - 1)

\* date.toordinal(): the day number in the proleptic Gregorian calendar
Ordinal(dt) ==
    LET y == dt.y - 1
    IN  y * 365 + (y \div 4) - (y \div 100) + (y \div 400) + DaysBeforeMonth(dt.y, dt.m) + dt.d

\* ----------------------------------------------- get_observations_by_*: loop
\* A date string is a sequence of lexemes: white space [k |-> "ws"], a text of the
\* shape Y-M-D [k |-> "date", y, m, d] (its numbers need not be a calendar date), or
\* any other text [k |-> "word"].

\* str.split(): the pieces between runs of white space
Split(str) == SelectSeq(str, LAMBDA x : x.k # "ws")

\* datetime.strptime(text, "%Y-%m-%d"): the date, or ValueError
Strptime(text) ==
    IF text.k = "date" /\ text.y \in 1..9999 /\ text.m \in 1..12
       /\ text.d \in 1..DaysInMonth(text.y, text.m)
    THEN Some([y |-> text.y, m |-> text.m, d |-> text.d])
    ELSE Raised("ValueError")

\* obs.get("obsDt", ""): a JSON string is Some(str), a JSON null is None
GetObsDt(obs) == IF "obsDt" \in DOMAIN obs THEN obs.obsDt ELSE Some(<<>>)

\* Lines 257-265 (and 349-355): what one parsed record adds to filtered_obs.
\* today carries a time of day and obs_date is a midnight, so (today - obs_date).days
\* is the difference of the two day numbers.
Appends(obs, obs_date, now, db, yb) ==
    LET days_diff == Ordinal(now) - Ordinal(obs_date)
    IN  IF days_diff <= db THEN <<obs>>
        ELSE IF yb > 0 /\ obs_date.m = now.m
        THEN (IF 1 <= now.y - obs_date.y /\ now.y - obs_date.y <= yb THEN <<obs>> ELSE <<>>)
        ELSE <<>>

\* The for loop of lines 248-269 (and 341-358): the list built, or the exception
\* that leaves the loop. The inner try catches ValueError only.
RECURSIVE FilterLoop(_, _, _, _, _)
FilterLoop(todo, filtered_obs, now, db, yb) ==
    IF todo = <<>> THEN Some(filtered_obs)
    ELSE LET obs == Head(todo)
             obs_date_str == GetObsDt(obs)
         IN  IF obs_date_str = None \/ obs_date_str.val = <<>>
             THEN FilterLoop(Tail(todo), filtered_obs, now, db, yb)
             ELSE IF Split(obs_date_str.val) = <<>>
             THEN Raised("IndexError")
             ELSE LET obs_date == Strptime(Split(obs_date_str.val)[1])
                  IN  IF obs_date.tag = "Raised"
                      THEN FilterLoop(Tail(todo), filtered_obs, now, db, yb)
                      ELSE FilterLoop(Tail(todo),
                                      filtered_obs \o Appends(obs, obs_date.val, now, db, yb),
                                      now, db, yb)

\* The except clauses of lines 273-292 (and 362-381): every one returns []
\* (ObsHandlersNoCatchAll is the variant without the final `except Exception`.)
ObsHandlersNoCatchAll == {"Timeout", "HTTPError", "RequestException"}

ObsHandlers == {"Timeout", "HTTPError", "RequestException", "Exception"}

\* What an observation request can come to
ObsOutcomes(records) ==
    {[kind |-> "raise", exc |-> x] :
        x \in {"Timeout", "HTTPError", "ConnectionError", "ValueError"}}
    \cup {[kind |-> "response", json |-> records]}

\* Lines 239-292 (and 332-381) for one outcome of the request
ObsResult(o, now, db, yb) ==
    LET r == IF o.kind = "raise" THEN Raised(o.exc)
             ELSE FilterLoop(o.json, <<>>, now, db, yb)
    IN  IF r.tag = "Raised"
        THEN (IF Classes(r.exc) \cap ObsHandlers # {} THEN Some(<<>>) ELSE r)
        ELSE r

\* get_observations_by_coords for a species code, coordinates in range and an API key
GetObservationsByCoords ==
    /\ opc = "start"
    /\ \E o \in ObsOutcomes(observations) :
         /\ filtered' = ObsResult(o, today, days_back, years_back)
         /\ ofetch' = IF o.kind = "response" THEN "ok" ELSE "failed"
    /\ via' = "coords"
    /\ opc' = "done"
    /\ UNCHANGED <<observations, today, days_back, years_back>>
    /\ UNCHANGED loadVars
    /\ UNCHANGED scoreVars
    /\ UNCHANGED suggestVars

\* get_observations_by_region for a species code, a region code and an API key
GetObservationsByRegion ==
    /\ opc = "start"
    /\ \E o \in ObsOutcomes(observations) :
         /\ filtered' = ObsResult(o, today, days_back, years_back)
         /\ ofetch' = IF o.kind = "response" THEN "ok" ELSE "failed"
    /\ via' = "region"
    /\ opc' = "done"
    /\ UNCHANGED <<observations, today, days_back, years_back>>
    /\ UNCHANGED loadVars
    /\ UNCHANGED scoreVars
    /\ UNCHANGED suggestVars

NextFilter == GetObservationsByCoords \/ GetObservationsByRegion

\* ------------------------------------------------------------------ numbers
\* A number is the fraction n/d in lowest terms with d > 0.
RECURSIVE GCD(_, _)
GCD(a, b) == IF b = 0 THEN a ELSE GCD(b, a % b)

Abs(a) == IF a < 0 THEN 0 - a ELSE a

Rat(n, d) ==
    LET g == GCD(Abs(n), Abs(d))
        s == IF d < 0 THEN 0 - 1 ELSE 1
    IN  [n |-> (s * n) \div g, d |-> (s * d) \div g]

Num(i) == Rat(i, 1)

RatAdd(a, b) == Rat(a.n * b.d + b.n * a.d, a.d * b.d)
RatSub(a, b) == Rat(a.n * b.d - b.n * a.d, a.d * b.d)
RatMul(a, b) == Rat(a.n * b.n, a.d * b.d)
RatLe(a, b) == a.n * b.d <= b.n * a.d
RatLt(a, b) == a.n * b.d < b.n * a.d

\* Python's `/` for a divisor that is not zero
TrueDiv(a, b) == Rat(a.n * b.d, a.d * b.n)

\* -------------------------------------------------------------------- dicts
\* A dict is the sequence of its items [k, v] in insertion order; assigning to a
\* key that is present replaces the value and leaves the position.
\* (DictSetFirst is the variant that keeps the value a key already has.)
InDict(d, key) == \E i \in DOMAIN d : d[i].k = key

DictGet(d, key, default) ==
    IF InDict(d, key) THEN d[CHOOSE i \in DOMAIN d : d[i].k = key].v ELSE default

DictSetFirst(d, key, value) ==
    IF InDict(d, key) THEN d ELSE Append(d, [k |-> key, v |-> value])

DictSet(d, key, value) ==
    IF InDict(d, key)
    THEN [i \in DOMAIN d |-> IF d[i].k = key THEN [k |-> key, v |-> value] ELSE d[i]]
    ELSE Append(d, [k |-> key, v |-> value])

RECURSIVE SumValues(_)
SumValues(d) == IF d = <<>> THEN 0 ELSE Head(d).v + SumValues(Tail(d))

\* bird_dict.get(key, "")
GetName(bird_dict, key) == IF key \in DOMAIN bird_dict THEN bird_dict[key] ELSE <<>>

\* -------------------------------------------------- calculate_probabilities
\* get_species_code called from the loop, the taxonomy request (if one is made)
\* coming to o: the code returned, what _load_taxonomy returned, what it assigned
\* to the cache and whether it sent a request
GetSpeciesCode(cache, key, o, a) ==
    IF NameIsEmpty(a.bird_name)
    THEN [code |-> None, loaded |-> NotCalled, store |-> None, fetched |-> FALSE]
    ELSE IF CacheHit(cache)
    THEN [code |-> AfterLoad(cache, a), loaded |-> cache, store |-> None, fetched |-> FALSE]
    ELSE IF ~key
    THEN [code |-> AfterLoad(None, a), loaded |-> None, store |-> None, fetched |-> FALSE]
    ELSE LET r == LoadResult(o)
         IN  [code |-> AfterLoad(r.ret, a), loaded |-> r.ret, store |-> r.store,
              fetched |-> TRUE]

\* What the requests of the scoring run can come to
TaxonomyOutcomes ==
    IF network = "up" THEN {[kind |-> "response", body |-> TaxonomyBody(remote)]}
    ELSE FetchOutcomes(remote)

Held(species_code) ==
    IF species_code \in DOMAIN sightings THEN sightings[species_code] ELSE <<>>

SightingOutcomes(species_code) ==
    IF network = "up" THEN {[kind |-> "response", json |-> Held(species_code)]}
    ELSE ObsOutcomes(Held(species_code))

FetchKind(o) == IF o.kind = "response" THEN "ok" ELSE "failed"

\* get_observations_by_coords, lines 212-292, the request (if one is sent) coming
\* to o: what is returned, and what became of the request
ObservationsByCoords(species_code, latitude, longitude, key, o) ==
    IF species_code = <<>> THEN [returned |-> Some(<<>>), fetch |-> "none"]
    ELSE IF ~(0 - 90 <= latitude /\ latitude <= 90)
            \/ ~(0 - 180 <= longitude /\ longitude <= 180)
    THEN [returned |-> Some(<<>>), fetch |-> "none"]
    ELSE IF ~key THEN [returned |-> Some(<<>>), fetch |-> "none"]
    ELSE [returned |-> ObsResult(o, today, days_back, years_back), fetch |-> FetchKind(o)]

\* get_observations_by_region, lines 312-381, the request (if one is sent) coming
\* to o
ObservationsByRegion(species_code, region_code, key, o) ==
    IF species_code = <<>> \/ region_code = <<>>
    THEN [returned |-> Some(<<>>), fetch |-> "none"]
    ELSE IF ~key THEN [returned |-> Some(<<>>), fetch |-> "none"]
    ELSE [returned |-> ObsResult(o, today, days_back, years_back), fetch |-> FetchKind(o)]

\* Lines 405-409: `not location or "type" not in location`
LocationLacksType(loc) == loc = None \/ "type" \notin DOMAIN loc.val

\* Lines 457-467. The keys of observation_counts are distinct, so probabilities
\* gets one item per item of observation_counts, in the same order.
\* (ProbabilitiesSmoothed is the variant with add-one smoothing.)
ProbabilitiesSmoothed(counts) ==
    LET total_observations == SumValues(counts) + Len(counts)
    IN  [i \in DOMAIN counts |->
            [k |-> counts[i].k,
             v |-> RatMul(TrueDiv(Num(counts[i].v + 1), Num(total_observations)), Num(100))]]

Probabilities(counts) ==
    LET total_observations == SumValues(counts)
    IN  [i \in DOMAIN counts |->
            [k |-> counts[i].k,
             v |-> IF total_observations > 0
                   THEN RatMul(TrueDiv(Num(counts[i].v), Num(total_observations)), Num(100))
                   ELSE Num(0)]]

\* Lines 405-419: the empty list returns {}, a location without 'type' raises
\* ValueError, otherwise the loop starts. (main returns when the call raises.)
CalculateProbabilities ==
    /\ spc = "start"
    /\ IF bird_suggestions = <<>>
       THEN /\ probabilities' = Some(<<>>)
            /\ spc' = "counted"
       ELSE IF LocationLacksType(location)
       THEN /\ probabilities' = Raised("ValueError")
            /\ spc' = "done"
       ELSE /\ spc' = "loop"
            /\ UNCHANGED probabilities
    /\ idx' = 1
    /\ observation_counts' = <<>>
    /\ UNCHANGED <<bird_suggestions, location, sightings, network, llm_weight, ebird_weight,
                   log, llm_ranks, combined_scores, sorted_results>>
    /\ UNCHANGED loadVars
    /\ UNCHANGED obsVars
    /\ UNCHANGED suggestVars

\* observation_counts[bird_name] = count, then the next iteration
Counted(bird_name, count, resolution, fetch) ==
    /\ observation_counts' = DictSet(observation_counts, bird_name, count)
    /\ log' = Append(log, [name |-> bird_name, code |-> resolution.code,
                           loaded |-> resolution.loaded, fetch |-> fetch, count |-> count])
    /\ idx' = idx + 1
    /\ UNCHANGED <<spc, probabilities>>

\* An exception leaves calculate_probabilities
Escapes(exc) ==
    /\ probabilities' = Raised(exc)
    /\ spc' = "done"
    /\ UNCHANGED <<observation_counts, log, idx>>

NoResolution == [code |-> NotCalled, loaded |-> NotCalled, store |-> None, fetched |-> FALSE]

\* One iteration of the loop of lines 421-455, with the calls it makes
ScoreBird ==
    /\ spc = "loop"
    /\ idx <= Len(bird_suggestions)
    /\ LET bird_dict == bird_suggestions[idx]
           bird_name == GetName(bird_dict, "common_name")
           scientific_name == GetName(bird_dict, "scientific_name")
           loc == location.val
       IN  IF NameIsEmpty(bird_name)
           THEN /\ Counted(bird_name, 0, NoResolution, "none")
                /\ UNCHANGED <<taxonomy_cache, fetches, assigns>>
           ELSE \E o \in TaxonomyOutcomes :
                  LET g == GetSpeciesCode(taxonomy_cache, has_key, o,
                              [bird_name |-> bird_name, scientific_name |-> scientific_name])
                  IN  /\ taxonomy_cache' = IF g.store # None THEN g.store ELSE taxonomy_cache
                      /\ fetches' = IF g.fetched THEN fetches + 1 ELSE fetches
                      /\ assigns' = IF g.store # None THEN assigns + 1 ELSE assigns
                      /\ IF g.code.tag = "Raised" THEN Escapes(g.code.exc)
                         ELSE IF g.code = None \/ g.code.val = <<>>
                         THEN Counted(bird_name, 0, g, "none")
                         ELSE IF loc.type = "coords"
                         THEN IF {"latitude", "longitude"} \subseteq DOMAIN loc
                              THEN \E q \in SightingOutcomes(g.code.val) :
                                     LET obs == ObservationsByCoords(g.code.val, loc.latitude,
                                                    loc.longitude, has_key, q)
                                     IN  IF obs.returned.tag = "Raised"
                                         THEN Escapes(obs.returned.exc)
                                         ELSE Counted(bird_name, Len(obs.returned.val), g,
                                                      obs.fetch)
                              ELSE Escapes("KeyError")
                         ELSE IF loc.type = "region"
                         THEN IF "region_code" \in DOMAIN loc
                              THEN \E q \in SightingOutcomes(g.code.val) :
                                     LET obs == ObservationsByRegion(g.code.val,
                                                    loc.region_code, has_key, q)
                                     IN  IF obs.returned.tag = "Raised"
                                         THEN Escapes(obs.returned.exc)
                                         ELSE Counted(bird_name, Len(obs.returned.val), g,
                                                      obs.fetch)
                              ELSE Escapes("KeyError")
                         ELSE Counted(bird_name, 0, g, "none")
    /\ UNCHANGED <<bird_suggestions, location, sightings, network, llm_weight, ebird_weight,
                   llm_ranks, combined_scores, sorted_results>>
    /\ UNCHANGED <<remote, has_key, callers, budget, pc, calls, arg, ret, outcome, code>>
    /\ UNCHANGED obsVars
    /\ UNCHANGED suggestVars

\* Lines 457-467, after the last iteration
ReturnProbabilities ==
    /\ spc = "loop"
    /\ idx > Len(bird_suggestions)
    /\ probabilities' = Some(Probabilities(observation_counts))
    /\ spc' = "counted"
    /\ UNCHANGED <<bird_suggestions, location, sightings, network, llm_weight, ebird_weight,
                   idx, observation_counts, log, llm_ranks, combined_scores, sorted_results>>
    /\ UNCHANGED loadVars
    /\ UNCHANGED obsVars
    /\ UNCHANGED suggestVars

\* ------------------------------------------------- calculate_combined_scores
\* main, lines 366-370: for idx, bird_dict in enumerate(bird_suggestions, 1)
\* (BuildRanksZeroBased is the variant that counts from 0.)
RECURSIVE BuildRanksZeroBased(_, _, _)
BuildRanksZeroBased(suggestions, position, ranks) ==
    IF position > Len(suggestions) THEN ranks
    ELSE LET common_name == GetName(suggestions[position], "common_name")
         IN  BuildRanksZeroBased(suggestions, position + 1,
                IF common_name # <<>> THEN DictSet(ranks, common_name, position - 1)
                ELSE ranks)

RECURSIVE BuildRanks(_, _, _)
BuildRanks(suggestions, position, ranks) ==
    IF position > Len(suggestions) THEN ranks
    ELSE LET common_name == GetName(suggestions[position], "common_name")
         IN  BuildRanks(suggestions, position + 1,
                        IF common_name # <<>> THEN DictSet(ranks, common_name, position)
                        ELSE ranks)

\* Line 49: llm_score = (6 - llm_rank) / 5.0
\* (LlmScoreFromFive is the variant (5 - llm_rank) / 5.0.)
LlmScoreFromFive(llm_rank) == TrueDiv(Num(5 - llm_rank), Num(5))

LlmScore(llm_rank) == TrueDiv(Num(6 - llm_rank), Num(5))

\* Lines 56-59 (CombinedScoreUnweighted is the variant that forgets the weights)
CombinedScoreUnweighted(llm_score, ebird_score, lw, ew) ==
    RatMul(RatAdd(llm_score, ebird_score), Num(100))

CombinedScore(llm_score, ebird_score, lw, ew) ==
    RatMul(RatAdd(RatMul(llm_score, lw), RatMul(ebird_score, ew)), Num(100))

\* Lines 44-67: the score data of one name
ScoreData(common_name, ebird_probabilities, ranks, lw, ew) ==
    LET llm_rank == DictGet(ranks, common_name, 5)
        llm_score == LlmScore(llm_rank)
        ebird_prob == DictGet(ebird_probabilities, common_name, Num(0))
        ebird_score == TrueDiv(ebird_prob, Num(100))
    IN  [combined_score |-> CombinedScore(llm_score, ebird_score, lw, ew),
         llm_rank |-> llm_rank,
         llm_score |-> RatMul(llm_score, Num(100)),
         ebird_probability |-> ebird_prob,
         ebird_score |-> RatMul(ebird_score, Num(100))]

\* Lines 37-69: the loop over bird_suggestions
RECURSIVE calculate_combined_scores(_, _, _, _, _, _)
calculate_combined_scores(todo, scores, ebird_probabilities, ranks, lw, ew) ==
    IF todo = <<>> THEN scores
    ELSE LET common_name == GetName(Head(todo), "common_name")
         IN  calculate_combined_scores(Tail(todo),
                IF common_name = <<>> THEN scores
                ELSE DictSet(scores, common_name,
                             ScoreData(common_name, ebird_probabilities, ranks, lw, ew)),
                ebird_probabilities, ranks, lw, ew)

\* main, lines 365-379
CombineScores ==
    /\ spc = "counted"
    /\ llm_ranks' = BuildRanks(bird_suggestions, 1, <<>>)
    /\ combined_scores' =
          calculate_combined_scores(bird_suggestions, <<>>, probabilities.val,
                                    BuildRanks(bird_suggestions, 1, <<>>),
                                    llm_weight, ebird_weight)
    /\ spc' = "scored"
    /\ UNCHANGED <<bird_suggestions, location, sightings, network, llm_weight, ebird_weight,
                   idx, observation_counts, log, probabilities, sorted_results>>
    /\ UNCHANGED loadVars
    /\ UNCHANGED obsVars
    /\ UNCHANGED suggestVars

\* sorted(..., key=combined_score, reverse=True): stable, items of equal score
\* keep their order. Insert x behind every item whose score is >= its score.
\* (InsertByScoreAscending is the variant that sorts the other way.)
InsertByScoreAscending(sorted, x) ==
    LET n == Cardinality({i \in DOMAIN sorted :
                             RatLe(sorted[i].v.combined_score, x.v.combined_score)})
    IN  SubSeq(sorted, 1, n) \o <<x>> \o SubSeq(sorted, n + 1, Len(sorted))

InsertByScore(sorted, x) ==
    LET n == Cardinality({i \in DOMAIN sorted :
                             RatLe(x.v.combined_score, sorted[i].v.combined_score)})
    IN  SubSeq(sorted, 1, n) \o <<x>> \o SubSeq(sorted, n + 1, Len(sorted))

RECURSIVE SortByScore(_, _)
SortByScore(sorted, todo) ==
    IF todo = <<>> THEN sorted ELSE SortByScore(InsertByScore(sorted, Head(todo)), Tail(todo))

\* main, lines 391-396
SortResults ==
    /\ spc = "scored"
    /\ sorted_results' = SortByScore(<<>>, combined_scores)
    /\ spc' = "done"
    /\ UNCHANGED <<bird_suggestions, location, sightings, network, llm_weight, ebird_weight,
                   idx, observation_counts, log, probabilities, llm_ranks, combined_scores>>
    /\ UNCHANGED loadVars
    /\ UNCHANGED obsVars
    /\ UNCHANGED suggestVars

NextScore ==
    CalculateProbabilities \/ ScoreBird \/ ReturnProbabilities \/ CombineScores \/ SortResults

\* ------------------------------------------------------ get_bird_suggestions
\* mistral_client.py, line 79
models_to_try ==
    <<"mistral-large-latest", "mistral-medium-latest", "mistral-small-latest",
        "mistral-tiny">>

DecimalDigits == {"0", "1", "2", "3", "4", "5", "6", "7", "8", "9"}

\* The classes \w and \s of the regular expressions, and their use in re.sub
IsWordChar(c) ==
    \/ \E i \in DOMAIN LowerLetters : c \in {LowerLetters[i], UpperLetters[i]}
    \/ c \in DecimalDigits
    \/ c = "_"

\* re.sub(r'[^\w\s-]', '', common_name)
KeepNameChars(str) == SelectSeq(str, LAMBDA c : IsWordChar(c) \/ IsSpace(c) \/ c = "-")

\* re.sub(r'[^\w\s]', '', scientific_name)
KeepWordChars(str) == SelectSeq(str, LAMBDA c : IsWordChar(c) \/ IsSpace(c))

\* str.split(sep) for a separator of one character
RECURSIVE SplitOn(_, _)
SplitOn(str, sep) ==
    IF \E i \in DOMAIN str : str[i] = sep
    THEN LET i == CHOOSE k \in DOMAIN str :
                      str[k] = sep /\ \A j \in 1..(k - 1) : str[j] # sep
         IN  <<SubSeq(str, 1, i - 1)>> \o SplitOn(SubSeq(str, i + 1, Len(str)), sep)
    ELSE <<str>>

\* re.split(r'[,:;]', line_clean)[0]
BeforeSeparator(str) ==
    IF \E i \in DOMAIN str : str[i] \in {",", ":", ";"}
    THEN LET i == CHOOSE k \in DOMAIN str :
                      /\ str[k] \in {",", ":", ";"}
                      /\ \A j \in 1..(k - 1) : str[j] \notin {",", ":", ";"}
         IN  SubSeq(str, 1, i - 1)
    ELSE str

\* re.sub(r'^\d+[\.\)]\s*', '', line): leading digits, a dot or a parenthesis, and
\* the white space behind them
StripNumbering(line) ==
    LET digits == Cardinality({k \in DOMAIN line :
                                  \A j \in 1..k : line[j] \in DecimalDigits})
    IN  IF digits >= 1 /\ Len(line) > digits /\ line[digits + 1] \in {".", ")"}
        THEN LStrip(SubSeq(line, digits + 2, Len(line)))
        ELSE line

\* Lines 191 and 228: the words that mark a line as not a species entry
SkipLines ==
    <<<<"d", "e", "s", "c", "r", "i", "p", "t", "i", "o", "n", ":">>, <<"l", "o", "c", "a",
        "t", "i", "o", "n", ":">>, <<"d", "a", "t", "e", ":">>, <<"t", "o", "p", " ",
        "5">>, <<"i", "m", "p", "o", "r", "t", "a", "n", "t", ":">>>>
SkipNames == <<<<"f", "o", "r", "m", "a", "t">>, <<"e", "x", "a", "m", "p", "l", "e">>,
    <<"i", "m", "p", "o", "r", "t", "a", "n", "t">>, <<"r", "e", "t", "u", "r", "n">>>>

\* any(skip in text for skip in words)
AnyIn(words, text) == \E i \in DOMAIN words : Contains(text, words[i])

\* Lines 186-233: what one line of the content appends to birds
ParseLine(raw) ==
    LET line == Strip(raw)
        line_clean == Strip(StripNumbering(line))
        parts == [i \in DOMAIN SplitOn(line_clean, "|") |->
                     Strip(SplitOn(line_clean, "|")[i])]
        piped_name == Strip(KeepNameChars(Strip(parts[1])))
        piped_scientific == Strip(KeepWordChars(Strip(parts[2])))
        common_name == Strip(KeepNameChars(Strip(BeforeSeparator(line_clean))))
    IN  IF line = <<>> THEN <<>>
        ELSE IF AnyIn(SkipLines, Lower(line)) THEN <<>>
        ELSE IF /\ Contains(line_clean, <<"|">>)
                /\ Len(parts) >= 2
                /\ piped_name # <<>> /\ Len(piped_name) > 2
        THEN <<[common_name |-> piped_name, scientific_name |-> piped_scientific]>>
        ELSE IF /\ common_name # <<>> /\ Len(common_name) > 2
                /\ ~AnyIn(SkipNames, Lower(common_name))
        THEN <<[common_name |-> common_name, scientific_name |-> <<>>]>>
        ELSE <<>>

RECURSIVE ParseLines(_)
ParseLines(lines) ==
    IF lines = <<>> THEN <<>> ELSE ParseLine(Head(lines)) \o ParseLines(Tail(lines))

\* list[:5]
FirstFive(list) == SubSeq(list, 1, IF Len(list) < 5 THEN Len(list) ELSE 5)

parse_structured_bird_suggestions(content) == FirstFive(ParseLines(SplitOn(content, "\n")))

EmptySuggestion == [common_name |-> <<>>, scientific_name |-> <<>>]

\* Lines 112-113: while len(bird_suggestions) < 5: bird_suggestions.append({...})
\* (PadToFiveInFront is the variant that puts the empty entries first.)
RECURSIVE PadToFiveInFront(_)
PadToFiveInFront(list) ==
    IF Len(list) < 5 THEN PadToFiveInFront(<<EmptySuggestion>> \o list) ELSE list

RECURSIVE PadToFive(_)
PadToFive(list) == IF Len(list) < 5 THEN PadToFive(Append(list, EmptySuggestion)) ELSE list

\* Line 98: the statuses that send the loop to the next model
\* (RetryStatusesAnyError is the variant that also passes over a server error.)
RetryStatusesAnyError == {404, 400, 500}

RetryStatuses == {404, 400}

\* Lines 120-129: the except clauses of one iteration
HandleModelError(model, exc) ==
    IF "HTTPError" \in Classes(exc.class)
    THEN IF exc.status \in {404, 400}
         THEN [kind |-> "continue"]
         ELSE [kind |-> "raise", exc |-> "HTTPError"]
    ELSE IF model = models_to_try[Len(models_to_try)]
         THEN [kind |-> "raise",
             exc |-> "Exception: Failed to get valid response from any model"]
         ELSE [kind |-> "continue"]

\* Lines 94-129: one iteration, for one outcome o of requests.post
TryOneModel(model, o) ==
    IF o.kind = "raise" THEN HandleModelError(model, o.exc)
    ELSE IF o.status \in RetryStatuses THEN [kind |-> "continue"]
    ELSE IF o.status >= 400 /\ o.status < 600
         THEN HandleModelError(model, [class |-> "HTTPError", status |-> o.status])
    ELSE IF o.body = None THEN HandleModelError(model, [class |-> "KeyError"])
    ELSE LET content == Strip(o.body.val)
             birds == parse_structured_bird_suggestions(content)
         IN  IF birds # <<>> /\ Len(birds) > 0
             THEN [kind |-> "return",
                   val |-> [suggestions |-> FirstFive(PadToFive(birds)),
                            model_used |-> model]]
             ELSE [kind |-> "continue"]

\* What the language model can answer
SixBirds ==
    <<"1", ".", " ", "C", "a", "r", "o", "l", "i", "n", "a", " ", "W", "r", "e", "n", " ",
        "|", " ", "T", "h", "r", "y", "o", "t", "h", "o", "r", "u", "s", " ", "l", "u",
        "d", "o", "v", "i", "c", "i", "a", "n", "u", "s", "\n", "2", ".", " ", "H", "o",
        "u", "s", "e", " ", "W", "r", "e", "n", " ", "|", " ", "T", ".", " ", "a", "e",
        "d", "o", "n", "\n", "3", ")", " ", "E", "m", "u", "\n", "4", ".", " ", "C", "a",
        "r", "o", "l", "i", "n", "a", " ", "W", "r", "e", "n", "\n", "5", ".", " ", "a",
        "b", " ", "|", " ", "C", "d", "_", "e", "\n", "6", ".", " ", "M", "a", "r", "s",
        "h", " ", "W", "r", "e", "n">>
TwoBirds == <<"T", "o", "p", " ", "5", " ", "b", "i", "r", "d", " ", "s", "p", "e", "c",
    "i", "e", "s", ":", "\n", "\n", " ", "1", ".", " ", "H", "o", "u", "s", "e", " ", "W",
    "r", "e", "n", " ", "(", "l", "i", "k", "e", "l", "y", "!", ")", " ", "|", " ", "T",
    "r", "o", "g", "l", "o", "d", "y", "t", "e", "s", " ", "a", "e", "d", "o", "n", "\n",
    "C", "a", "r", "o", "l", "i", "n", "a", " ", "W", "r", "e", "n", ",", " ", "p", "r",
    "o", "b", "a", "b", "l", "y", "\n">>
NoBirds == <<"I", "M", "P", "O", "R", "T", "A", "N", "T", ":", " ", "I", " ", "c", "a",
    "n", "n", "o", "t", " ", "t", "e", "l", "l", ".", "\n", "1", "2", ".", " ", "a", "b",
    "\n", "F", "o", "r", "m", "a", "t", "\n", " ", "|", "x">>
Contents == {SixBirds, TwoBirds, NoBirds, <<>>}

\* The outcomes of requests.post: a response (its status, and the content of its
\* body, None for a body without 'choices') or an exception
PostOutcomes ==
    {[kind |-> "response", status |-> 200, body |-> Some(c)] : c \in Contents}
    \cup {[kind |-> "response", status |-> 200, body |-> None],
          [kind |-> "response", status |-> 404, body |-> Some(TwoBirds)]}
    \cup {[kind |-> "response", status |-> s, body |-> None] : s \in {400, 404, 401, 500}}
    \cup {[kind |-> "raise", exc |-> [class |-> "Timeout"]]}

\* main, lines 261-269: the validation behind the submit button
Submit ==
    /\ mpc = "submit"
    /\ mpc' = IF description = <<>> \/ Strip(description) = <<>> THEN "rejected"
              ELSE IF location = None THEN "rejected"
              ELSE "start"
    /\ UNCHANGED <<description, mistral_key, midx, posts, mistral_result>>
    /\ UNCHANGED scoreVars
    /\ UNCHANGED loadVars
    /\ UNCHANGED obsVars

\* Lines 36-42: the description and the API key, before the loop over the models
GetBirdSuggestions ==
    /\ mpc = "start"
    /\ IF description = <<>> \/ Strip(description) = <<>>
       THEN mistral_result' = Raised("ValueError") /\ mpc' = "ended"
       ELSE IF ~mistral_key
       THEN mistral_result' = Raised("Exception: API key configuration error")
            /\ mpc' = "ended"
       ELSE mpc' = "loop" /\ UNCHANGED mistral_result
    /\ midx' = 1
    /\ UNCHANGED <<description, mistral_key, posts>>
    /\ UNCHANGED scoreVars
    /\ UNCHANGED loadVars
    /\ UNCHANGED obsVars

\* One iteration of the loop of lines 81-129, and line 131 behind the last one
TryModel ==
    /\ mpc = "loop"
    /\ \E o \in PostOutcomes :
          LET model == models_to_try[midx]
              r == TryOneModel(model, o)
          IN  /\ posts' = Append(posts, [model |-> model, outcome |-> o])
              /\ IF r.kind = "return"
                 THEN /\ mistral_result' = Some(r.val)
                      /\ mpc' = "ended"
                      /\ UNCHANGED midx
                 ELSE IF r.kind = "raise"
                 THEN /\ mistral_result' = Raised(r.exc)
                      /\ mpc' = "ended"
                      /\ UNCHANGED midx
                 ELSE IF midx < Len(models_to_try)
                 THEN /\ midx' = midx + 1
                      /\ UNCHANGED <<mistral_result, mpc>>
                 ELSE /\ mistral_result' =
                            Raised("Exception: Could not get valid response from any Mistral model")
                      /\ mpc' = "ended"
                      /\ UNCHANGED midx
    /\ UNCHANGED <<description, mistral_key>>
    /\ UNCHANGED scoreVars
    /\ UNCHANGED loadVars
    /\ UNCHANGED obsVars

\* main, line 310: [b for b in bird_suggestions if b and b.get("common_name")]
DropEmptyEntries(suggestions) ==
    SelectSeq(suggestions, LAMBDA b : GetName(b, "common_name") # <<>>)

\* main, lines 302-327: what main does with the result; the candidate list goes on
\* to calculate_probabilities unless an error is shown
TakeSuggestions ==
    /\ mpc = "ended"
    /\ IF mistral_result.tag = "Raised"
       THEN mpc' = "rejected" /\ UNCHANGED <<bird_suggestions, spc>>
       ELSE LET received == mistral_result.val.suggestions
            IN  IF \/ received = <<>>
                   \/ \A i \in DOMAIN received : GetName(received[i], "common_name") = <<>>
                   \/ DropEmptyEntries(received) = <<>>
                THEN mpc' = "rejected" /\ UNCHANGED <<bird_suggestions, spc>>
                ELSE /\ bird_suggestions' = DropEmptyEntries(received)
                     /\ spc' = "start"
                     /\ mpc' = "taken"
    /\ UNCHANGED <<description, mistral_key, midx, posts, mistral_result>>
    /\ UNCHANGED <<location, sightings, network, llm_weight, ebird_weight, idx,
                   observation_counts, log, probabilities, llm_ranks, combined_scores,
                   sorted_results>>
    /\ UNCHANGED loadVars
    /\ UNCHANGED obsVars

NextSuggest == Submit \/ GetBirdSuggestions \/ TryModel \/ TakeSuggestions \/ NextScore

\* ------------------------------------------------------------ initial states
Digits == <<"1", "2", "3", "4", "5", "6", "7", "8", "9">>

\* The species code of the i-th taxonomy row: codes identify rows
CodeAt(i) == <<"c", Digits[i]>>

ComPool == {<<>>, <<"a", "b">>, <<"C", "a", "b">>, <<"a", "b", " ">>}
SciPool == {<<>>, <<"x", "y">>}

RowsOfLen(n) ==
    {[i \in 1..n |-> [com |-> r[i].com, sci |-> r[i].sci,
                      code |-> IF r[i].has THEN CodeAt(i) ELSE <<>>]] :
        r \in [1..n -> [com : ComPool, sci : SciPool, has : BOOLEAN]]}

Remotes ==
    {[fmt |-> f, rows |-> r] :
        f \in {"csv", "json"}, r \in UNION {RowsOfLen(n) : n \in 0..MaxTax}}

BirdNames ==
    {<<>>, <<" ">>, <<"a", "b">>, <<"A", "B", " ">>, <<"b">>,
     <<"c", "a", "b", "d">>, <<"z", "z">>}
SciNames == {<<>>, <<"X", "y">>, <<"x">>}

Wren == [com |-> <<"a", "b">>, sci |-> <<"x", "y">>, code |-> CodeAt(1)]
CarolinaWren == [com |-> <<"C", "a", "b">>, sci |-> <<>>, code |-> CodeAt(2)]
SmallRemotes ==
    {[fmt |-> "csv", rows |-> <<Wren>>], [fmt |-> "json", rows |-> <<Wren, CarolinaWren>>],
     [fmt |-> "json", rows |-> <<>>]}
SmallArgs ==
    {[bird_name |-> <<"a", "b">>, scientific_name |-> <<>>],
     [bird_name |-> <<"z", "z">>, scientific_name |-> <<"x">>],
     [bird_name |-> <<" ">>, scientific_name |-> <<"x", "y">>],
     [bird_name |-> <<>>, scientific_name |-> <<"x", "y">>]}

SuggestIdle ==
    /\ description = <<>>
    /\ mistral_key = FALSE
    /\ mpc = "off"
    /\ midx = 1
    /\ posts = <<>>
    /\ mistral_result = NotCalled

ScoreIdle ==
    /\ bird_suggestions = <<>>
    /\ location = None
    /\ sightings = <<>>
    /\ network = "up"
    /\ llm_weight = Rat(2, 5)
    /\ ebird_weight = Rat(3, 5)
    /\ spc = "off"
    /\ idx = 1
    /\ observation_counts = <<>>
    /\ log = <<>>
    /\ probabilities = NotCalled
    /\ llm_ranks = <<>>
    /\ combined_scores = <<>>
    /\ sorted_results = <<>>

ObsIdle ==
    /\ observations = <<>>
    /\ today = [y |-> 2024, m |-> 1, d |-> 1]
    /\ days_back = 30
    /\ years_back = 5
    /\ opc = "off"
    /\ via = "none"
    /\ ofetch = "none"
    /\ filtered = NotCalled

LoadStart ==
    /\ taxonomy_cache = None
    /\ pc = [t \in Threads |-> "idle"]
    /\ calls = [t \in Threads |-> 0]
    /\ ret = [t \in Threads |-> NotCalled]
    /\ outcome = [t \in Threads |-> "none"]
    /\ code = [t \in Threads |-> NotCalled]
    /\ fetches = 0
    /\ assigns = 0

\* Threads of one process calling get_species_code concurrently
Init ==
    /\ LoadStart
    /\ ObsIdle
    /\ ScoreIdle
    /\ SuggestIdle
    /\ remote \in SmallRemotes
    /\ has_key \in BOOLEAN
    /\ callers = Threads
    /\ budget = MaxCalls
    /\ arg \in [Threads -> SmallArgs]

Next == NextLoad

Spec == Init /\ [][Next]_vars

\* One caller, several calls one after the other
InitSeq ==
    /\ LoadStart
    /\ ObsIdle
    /\ ScoreIdle
    /\ SuggestIdle
    /\ remote \in SmallRemotes
    /\ has_key \in BOOLEAN
    /\ callers = {1}
    /\ budget = MaxCalls
    /\ arg \in {[t \in Threads |-> a] : a \in SmallArgs}

SpecSeq == InitSeq /\ [][NextLoad]_vars

\* One call of get_species_code in a fresh process, over every small taxonomy
InitResolve ==
    /\ LoadStart
    /\ ObsIdle
    /\ ScoreIdle
    /\ SuggestIdle
    /\ remote \in Remotes
    /\ has_key = TRUE
    /\ callers = {1}
    /\ budget = 1
    /\ arg \in {[t \in Threads |-> [bird_name |-> b, scientific_name |-> s]] :
                    b \in BirdNames, s \in SciNames}

SpecResolve == InitResolve /\ [][NextLoad]_vars

\* The observation calls, over small batches of records around the window bounds
CalendarDates ==
    {[y |-> yy, m |-> mm, d |-> dd] : yy \in 2020..2025, mm \in 1..12, dd \in 1..31}

ValidDates == {dt \in CalendarDates : dt.d <= DaysInMonth(dt.y, dt.m)}

\* The date k days before dt
DaysBefore(dt, k) == CHOOSE x \in ValidDates : Ordinal(x) = Ordinal(dt) - k

Todays == {[y |-> 2024, m |-> 3, d |-> 15], [y |-> 2024, m |-> 3, d |-> 31],
           [y |-> 2023, m |-> 1, d |-> 1]}
DaysBackSet == {1, 30, 365}

Ws == [k |-> "ws"]
DateText(dt) == [k |-> "date", y |-> dt.y, m |-> dt.m, d |-> dt.d]
Word(w) == [k |-> "word", w |-> w]

\* The obsDt values of a batch: dates at the bounds of the two windows, and the
\* malformed ones
ObsDtPool(now, db, yb) ==
    {Some(<<DateText(DaysBefore(now, k))>>) : k \in {-1, 0, db + 1}}
    \cup {Some(<<DateText(DaysBefore(now, db)), Ws, Word("10:30")>>)}
    \cup {Some(<<DateText([y |-> now.y - k, m |-> now.m, d |-> 1])>>) :
            k \in {0, 1, yb, yb + 1}}
    \cup {Some(<<>>), Some(<<Ws>>), None, Some(<<Word("n/a")>>),
          Some(<<DateText([y |-> now.y, m |-> 2, d |-> 30])>>)}

ObsPool(now, db, yb) ==
    {[obsDt |-> v] : v \in ObsDtPool(now, db, yb)} \cup {[comName |-> <<"a", "b">>]}

\* Records carry their position as subId, so that equal dates stay distinct records
Batches(now, db, yb) ==
    UNION {{[i \in 1..n |-> [k \in DOMAIN b[i] \cup {"subId"} |->
                                IF k = "subId" THEN i ELSE b[i][k]]] :
               b \in [1..n -> ObsPool(now, db, yb)]} : n \in 0..MaxObs}

LoadIdle ==
    /\ LoadStart
    /\ remote = [fmt |-> "csv", rows |-> <<>>]
    /\ has_key = TRUE
    /\ callers = {}
    /\ budget = 0
    /\ arg = [t \in Threads |-> [bird_name |-> <<>>, scientific_name |-> <<>>]]

InitFilter ==
    /\ LoadIdle
    /\ ScoreIdle
    /\ SuggestIdle
    /\ today \in Todays
    /\ days_back \in DaysBackSet
    /\ years_back \in 0..MaxYearsBack
    /\ observations \in Batches(today, days_back, years_back)
    /\ opc = "start"
    /\ via = "none"
    /\ ofetch = "none"
    /\ filtered = NotCalled

SpecFilter == InitFilter /\ [][NextFilter]_vars

\* The scoring run of main (lines 333-396) on the candidate list of the language
\* model, at most MaxBirds candidates (mistral_client.py: bird_suggestions[:5])
MaxBirds == 5

CarolinaWrenName == <<"C", "a", "r", "o", "l", "i", "n", "a", " ", "W", "r", "e", "n">>
HouseWrenName == <<"H", "o", "u", "s", "e", " ", "W", "r", "e", "n">>
EmuName == <<"E", "m", "u">>

ScoreRemote ==
    [fmt |-> "json",
     rows |-> <<[com |-> CarolinaWrenName, sci |-> <<>>, code |-> CodeAt(1)],
                [com |-> HouseWrenName, sci |-> <<>>, code |-> CodeAt(2)]>>]

Bird(common_name) == [common_name |-> common_name, scientific_name |-> <<>>]

ListsOver(pool, n) == UNION {[1..k -> pool] : k \in 0..n}

\* n records of the day dt
SeenOn(dt, n) == [i \in 1..n |-> [obsDt |-> Some(<<DateText(dt)>>), subId |-> i]]

Sightings(carolina, house) ==
    [c \in {CodeAt(1), CodeAt(2)} |-> IF c = CodeAt(1) THEN carolina ELSE house]

\* main, lines 132-152: the slider goes from 0.0 to 1.0 in steps of 0.05, and
\* ebird_weight_raw = 1.0 - llm_weight_raw. The values taken here are 0.0, 0.05,
\* 0.4 (the default), 0.5 and 1.0.
SliderValues == {Rat(k, 20) : k \in {0, 1, 8, 10, 20}}
EbirdWeightOf(llm_weight_raw) == RatSub(Num(1), llm_weight_raw)

Coords == Some([type |-> "coords", latitude |-> 40, longitude |-> 0 - 73])

ScoreStart ==
    /\ LoadStart
    /\ ObsIdle
    /\ remote = ScoreRemote
    /\ callers = {}
    /\ budget = 0
    /\ arg = [t \in Threads |-> [bird_name |-> <<>>, scientific_name |-> <<>>]]
    /\ spc = "start"
    /\ idx = 1
    /\ observation_counts = <<>>
    /\ log = <<>>
    /\ probabilities = NotCalled
    /\ llm_ranks = <<>>
    /\ combined_scores = <<>>
    /\ sorted_results = <<>>

\* The service answers every request
InitScore ==
    /\ ScoreStart
    /\ SuggestIdle
    /\ has_key = TRUE
    /\ network = "up"
    /\ location = Coords
    /\ bird_suggestions \in
          ListsOver({Bird(CarolinaWrenName), Bird(HouseWrenName), Bird(<<>>)}, MaxBirds)
    /\ sightings \in {Sightings(SeenOn(today, 8), SeenOn(today, 2)),
                      Sightings(SeenOn(today, 1), SeenOn(today, 2)),
                      Sightings(SeenOn(today, 3), <<>>),
                      Sightings(<<>>, <<>>)}
    /\ llm_weight \in SliderValues
    /\ ebird_weight = EbirdWeightOf(llm_weight)

SpecScore == InitScore /\ [][NextScore]_vars

\* Requests can fail, records can be malformed, the location can be anything
Region == Some([type |-> "region", region_code |-> <<"U", "S">>])

Locations ==
    {Coords, Region, None,
     Some([latitude |-> 40, longitude |-> 0 - 73]),
     Some([type |-> "zip", code |-> <<"1">>]),
     Some([type |-> "coords"]),
     Some([type |-> "region"]),
     Some([type |-> "coords", latitude |-> 91, longitude |-> 0])}

MalformedBatch(dt) ==
    <<[obsDt |-> Some(<<Word("n/a")>>), subId |-> 1],
      [obsDt |-> Some(<<DateText(dt)>>), subId |-> 2]>>

BlankBatch(dt) ==
    <<[obsDt |-> Some(<<DateText(dt)>>), subId |-> 1],
      [obsDt |-> Some(<<Ws>>), subId |-> 2]>>

InitDegrade ==
    /\ ScoreStart
    /\ SuggestIdle
    /\ has_key \in BOOLEAN
    /\ network \in {"up", "flaky"}
    /\ location \in Locations
    /\ bird_suggestions \in
          ListsOver({Bird(CarolinaWrenName), Bird(HouseWrenName), Bird(EmuName), Bird(<<>>),
                     Bird(<<" ">>), [scientific_name |-> <<"x">>]},
                    MaxFaulty)
    /\ sightings \in {Sightings(SeenOn(today, 2), MalformedBatch(today)),
                      Sightings(BlankBatch(today), <<>>)}
    /\ llm_weight = Rat(2, 5)
    /\ ebird_weight = EbirdWeightOf(llm_weight)

SpecDegrade == InitDegrade /\ [][NextScore]_vars

\* The whole of main: the description goes to the language model, its candidates
\* to the scoring run
BirdDescription == <<"s", "m", "a", "l", "l", " ", "b", "r", "o", "w", "n", " ", "b", "i",
    "r", "d">>

InitSuggest ==
    /\ LoadStart
    /\ ObsIdle
    /\ remote = ScoreRemote
    /\ callers = {}
    /\ budget = 0
    /\ arg = [t \in Threads |-> [bird_name |-> <<>>, scientific_name |-> <<>>]]
    /\ has_key = TRUE
    /\ network = "up"
    /\ location \in {Coords, Region, None}
    /\ sightings = Sightings(SeenOn(today, 8), SeenOn(today, 2))
    /\ llm_weight = Rat(2, 5)
    /\ ebird_weight = EbirdWeightOf(llm_weight)
    /\ bird_suggestions = <<>>
    /\ spc = "off"
    /\ idx = 1
    /\ observation_counts = <<>>
    /\ log = <<>>
    /\ probabilities = NotCalled
    /\ llm_ranks = <<>>
    /\ combined_scores = <<>>
    /\ sorted_results = <<>>
    /\ description \in {<<>>, <<" ">>, BirdDescription}
    /\ mistral_key \in BOOLEAN
    /\ mpc = "submit"
    /\ midx = 1
    /\ posts = <<>>
    /\ mistral_result = NotCalled

SpecSuggest == InitSuggest /\ [][NextSuggest]_vars

\* ------------------------------------------------- get_species_code: claims
\* The claims below speak about the call of thread 1 once it has returned with a
\* taxonomy loaded, in terms of the rows the service holds.
Resolved == pc[1] = "done" /\ outcome[1] = "ok"

Min(S) == CHOOSE i \in S : \A j \in S : i <= j

InName == Strip(Lower(arg[1].bird_name))
InSci ==
    IF arg[1].scientific_name # <<>> THEN Strip(Lower(arg[1].scientific_name)) ELSE <<>>

RowCom(i) == Lower(remote.rows[i].com)
RowSci(i) == Lower(remote.rows[i].sci)
RowCode(i) == remote.rows[i].code
Rows == DOMAIN remote.rows
Coded == {i \in Rows : RowCode(i) # <<>>}

NameExact == {i \in Rows : RowCom(i) = InName}
SciExact == {i \in Rows : InSci # <<>> /\ RowSci(i) = InSci}
NamePartial == {i \in Rows : Contains(RowCom(i), InName) \/ Contains(InName, RowCom(i))}
SciPartial ==
    {i \in Rows : InSci # <<>> /\ (Contains(RowSci(i), InSci) \/ Contains(InSci, RowSci(i)))}

\* The first of the longest common names of a set of rows
Longest(S) == Min({i \in S : \A j \in S : Len(RowCom(j)) <= Len(RowCom(i))})

\* C1 as stated: whenever some row's common name equals the input common name
\* case-insensitively, the returned id is the id of such a row.
C1_ExactMatchWins ==
    (Resolved /\ NameExact # {}) => code[1] \in {Some(RowCode(i)) : i \in NameExact}

\* C1: whenever some row that has a species code has a common name equal to the
\* input common name case-insensitively, the returned id is the id of the first
\* such row, whatever longer names match by substring.
C1_ExactMatchWithCodeWins ==
    (Resolved /\ NameExact \cap Coded # {})
        => code[1] = Some(RowCode(Min(NameExact \cap Coded)))

\* C1 witness: an exact match is returned although a row with a longer common name
\* and a species code matches the input by substring.
C1_Witness ==
    /\ Resolved
    /\ NameExact \cap Coded # {}
    /\ code[1] = Some(RowCode(Min(NameExact \cap Coded)))
    /\ \E j \in (NamePartial \cap Coded) \ NameExact :
          Len(RowCom(j)) > Len(InName) /\ Some(RowCode(j)) # code[1]

\* What the strategy chain returns, a strategy finding a match when a row with a
\* species code matches: 1 exact common name, 2 exact scientific name, 3 common
\* name substring (any of its matches), 4 scientific name substring (the first).
ChainResults ==
    IF NameExact \cap Coded # {} THEN {Some(RowCode(Min(NameExact \cap Coded)))}
    ELSE IF SciExact \cap Coded # {} THEN {Some(RowCode(Min(SciExact \cap Coded)))}
    ELSE IF NamePartial \cap Coded # {} THEN {Some(RowCode(i)) : i \in NamePartial \cap Coded}
    ELSE IF SciPartial \cap Coded # {} THEN {Some(RowCode(Min(SciPartial \cap Coded)))}
    ELSE {None}

\* C2: the four strategies are applied in the order exact common name, exact
\* scientific name, common-name substring, scientific-name substring; the first
\* that finds a match decides, the last returns its first match in taxonomy order,
\* and None is returned only when none of them finds a match.
C2_StrategyOrder == Resolved => code[1] \in ChainResults

\* C2 witness: no exact common-name match, an exact scientific-name match and a
\* common-name substring match on another row: the scientific-name match is returned.
C2_Witness ==
    /\ Resolved
    /\ NameExact \cap Coded = {}
    /\ SciExact \cap Coded # {}
    /\ \E j \in (NamePartial \cap Coded) \ SciExact : RowCom(j) # <<>>
    /\ code[1] = Some(RowCode(Min(SciExact \cap Coded)))

\* C3 as stated: with no exact match, the result is the id of the first of the
\* longest common names among all rows that contain the input or are contained in it.
C3_LongestPartialWins ==
    (Resolved /\ NameExact = {} /\ SciExact = {} /\ NamePartial # {})
        => code[1] = Some(RowCode(Longest(NamePartial)))

\* C3: with no exact match on a row that has a species code, the result is the id
\* of the first of the longest common names among the rows that have a species
\* code and contain the input or are contained in it.
C3_LongestCodedPartialWins ==
    (Resolved /\ NameExact \cap Coded = {} /\ SciExact \cap Coded = {}
        /\ NamePartial \cap Coded # {})
        => code[1] = Some(RowCode(Longest(NamePartial \cap Coded)))

\* C3 witness: two substring matches of the same, longest length; the earlier row
\* is returned.
C3_Witness ==
    /\ Resolved
    /\ NameExact \cap Coded = {} /\ SciExact \cap Coded = {}
    /\ \E i, j \in NamePartial \cap Coded :
          /\ i < j
          /\ RowCom(i) # RowCom(j)
          /\ Len(RowCom(i)) = Len(RowCom(j))
          /\ i = Longest(NamePartial \cap Coded)
          /\ code[1] = Some(RowCode(i))

\* --------------------------------------------------- _load_taxonomy: claims
\* C4 as stated: over any sequence of calls, whatever their outcomes, the taxonomy
\* source is fetched at most once.
C4_FetchedAtMostOnce == fetches <= 1

\* C4: over any sequence of calls made one after the other, the cache is assigned
\* at most once, and once a call has succeeded no later call fetches again or
\* changes the cache: every later call of _load_taxonomy returns the cached
\* sequence. (A failed call caches nothing, and the next call fetches again.)
C4_LoadedAtMostOnce ==
    [][/\ assigns' <= 1
       /\ taxonomy_cache # None =>
            /\ taxonomy_cache' = taxonomy_cache
            /\ fetches' = fetches
            /\ \A t \in Threads :
                 calls'[t] # calls[t] => ret'[t] \in {taxonomy_cache, NotCalled}]_vars

\* C4 witness: a later call has returned the cached sequence after exactly one
\* successful fetch, which itself came after a failed one.
C4_Witness ==
    /\ pc[1] = "done"
    /\ calls[1] >= 2
    /\ outcome[1] = "cached"
    /\ taxonomy_cache # None
    /\ ret[1] = taxonomy_cache
    /\ fetches = 2
    /\ assigns = 1

\* C5: with concurrent callers the cache is initialized at most once.
C5_InitializedAtMostOnce == assigns <= 1

\* C6 as stated: every failure of the backing source makes _load_taxonomy return an
\* empty sequence, and get_species_code return None, without raising.
C6_FailureGivesEmptySequence ==
    \A t \in Threads :
        (pc[t] = "done" /\ outcome[t] = "failed") => (ret[t] = Some(<<>>) /\ code[t] = None)

\* C6: every failure of the backing source makes _load_taxonomy return None, and
\* get_species_code return None; no exception leaves either function.
C6_FailureGivesNone ==
    \A t \in Threads :
        /\ (pc[t] = "done" /\ outcome[t] = "failed") => (ret[t] = None /\ code[t] = None)
        /\ ret[t].tag # "Raised" /\ code[t].tag # "Raised"

\* C6 witness: a call whose taxonomy request failed has returned None.
C6_Witness ==
    \E t \in Threads :
        /\ pc[t] = "done" /\ outcome[t] = "failed"
        /\ fetches > 0
        /\ ret[t] = None /\ code[t] = None

\* ------------------------------------------- get_observations_by_*: claims
\* The claims speak about a call whose request went through.
Fetched == opc = "done" /\ ofetch = "ok"

\* A record with a parsable date, and that date
DatePieces(obs) ==
    IF "obsDt" \in DOMAIN obs /\ obs.obsDt # None
    THEN SelectSeq(obs.obsDt.val, LAMBDA x : x.k # "ws") ELSE <<>>

WellDated(obs) ==
    /\ DatePieces(obs) # <<>>
    /\ DatePieces(obs)[1].k = "date"
    /\ DatePieces(obs)[1] \in
          {[k |-> "date", y |-> dt.y, m |-> dt.m, d |-> dt.d] : dt \in ValidDates}

DateOf(obs) ==
    [y |-> DatePieces(obs)[1].y, m |-> DatePieces(obs)[1].m, d |-> DatePieces(obs)[1].d]

\* A date string that is not empty and holds white space only
BlankDated(obs) ==
    "obsDt" \in DOMAIN obs /\ obs.obsDt # None /\ obs.obsDt.val # <<>> /\ DatePieces(obs) = <<>>

DaysAgo(obs) == Ordinal(today) - Ordinal(DateOf(obs))
YearsAgo(obs) == today.y - DateOf(obs).y

InRecentWindow(obs) == DaysAgo(obs) <= days_back
InAnniversaryWindow(obs) ==
    years_back > 0 /\ DateOf(obs).m = today.m /\ 1 <= YearsAgo(obs) /\ YearsAgo(obs) <= years_back

InWindow(obs) == WellDated(obs) /\ (InRecentWindow(obs) \/ InAnniversaryWindow(obs))

Returned == IF filtered.tag = "Some" THEN filtered.val ELSE <<>>
Kept(obs) == \E i \in DOMAIN Returned : Returned[i] = obs

\* C7: the returned list is exactly the subsequence, in input order, of the records
\* with a parsable date that are in the recent or in the anniversary window.
C7_ExactSubsequence ==
    Fetched => filtered = Some(SelectSeq(observations, InWindow))

\* C8: a record dated exactly days_back days before today is kept, and a record
\* dated days_back + 1 days before today in another month than today's is dropped.
C8_RecentBoundary ==
    Fetched =>
        \A i \in DOMAIN observations :
            LET obs == observations[i]
            IN  WellDated(obs) =>
                  /\ DaysAgo(obs) = days_back => Kept(obs)
                  /\ (DaysAgo(obs) = days_back + 1 /\ DateOf(obs).m # today.m) => ~Kept(obs)

\* C9: a same-month record dated exactly years_back years earlier is kept; one
\* dated years_back + 1 years earlier and outside the recent window is dropped; a
\* same-month record of the current year is kept only if it is in the recent
\* window; with years_back = 0 a record outside the recent window is dropped.
C9_AnniversaryBoundary ==
    Fetched =>
        \A i \in DOMAIN observations :
            LET obs == observations[i]
            IN  (WellDated(obs) /\ DateOf(obs).m = today.m) =>
                  /\ (years_back >= 1 /\ YearsAgo(obs) = years_back) => Kept(obs)
                  /\ (YearsAgo(obs) = years_back + 1 /\ ~InRecentWindow(obs)) => ~Kept(obs)
                  /\ (YearsAgo(obs) = 0 /\ ~InRecentWindow(obs)) => ~Kept(obs)
                  /\ (years_back = 0 /\ ~InRecentWindow(obs)) => ~Kept(obs)

\* C10: the call does not raise, and what it returns is what it returns for the
\* batch without its records of missing, empty, blank or unparsable date.
C10_MalformedDatesDropped ==
    Fetched =>
        filtered = FilterLoop(SelectSeq(observations, WellDated), <<>>,
                              today, days_back, years_back)

\* What holds of the code, for reference: whenever no record of the batch has a
\* blank (white space only) date, C7 to C10 hold as stated; a batch with such a
\* record returns the empty list.
NoBlankDate == \A i \in DOMAIN observations : ~BlankDated(observations[i])

FilterWithoutBlankDates ==
    (Fetched /\ NoBlankDate) => filtered = Some(SelectSeq(observations, InWindow))

FilterWithBlankDate ==
    (Fetched /\ ~NoBlankDate) => filtered = Some(<<>>)

\* -------------------------------------------------------- scoring: claims
\* The claims speak about a scoring run whose calculate_probabilities has returned a
\* mapping (Counted), and about its scores once they are computed (Scored).
HasProbabilities == spc \in {"counted", "scored", "done"} /\ probabilities.tag = "Some"
Scored == spc \in {"scored", "done"}

TotalCount == SumValues(observation_counts)

RECURSIVE SumOf(_)
SumOf(d) == IF d = <<>> THEN Num(0) ELSE RatAdd(Head(d).v, SumOf(Tail(d)))

\* C11: with T the sum of the counts, each name's probability is count / T * 100
\* when T > 0 and 0 when T = 0; the probabilities sum to 100 when T > 0 and are all
\* 0 when T = 0; a name of count 0 has probability 0 (no smoothing, no floor).
C11_ProbabilitiesNormalized ==
    HasProbabilities =>
        LET p == probabilities.val
        IN  /\ Len(p) = Len(observation_counts)
            /\ \A i \in DOMAIN p :
                  /\ p[i].k = observation_counts[i].k
                  /\ TotalCount > 0 =>
                        p[i].v.n * TotalCount = 100 * observation_counts[i].v * p[i].v.d
                  /\ TotalCount = 0 => p[i].v = Num(0)
                  /\ observation_counts[i].v = 0 => p[i].v = Num(0)
            /\ (TotalCount > 0) => SumOf(p) = Num(100)

\* C11 witness: three names of counts 1, 2 and 0: a probability that is not a whole
\* number, and a zero-count name at probability 0 beside them.
C11_Witness ==
    /\ HasProbabilities
    /\ TotalCount = 3
    /\ \E i, j \in DOMAIN probabilities.val :
          /\ probabilities.val[i].v = Rat(100, 3)
          /\ observation_counts[j].v = 0 /\ probabilities.val[j].v = Num(0)
    /\ SumOf(probabilities.val) = Num(100)

\* The rank and the probability that calculate_combined_scores reads for a name
RankOf(name) == DictGet(llm_ranks, name, 5)
ProbabilityOf(name) == DictGet(probabilities.val, name, Num(0))

\* C12: every combined score is (llm_score * w_llm + ebird_score * w_ebird) * 100
\* with llm_score = (6 - rank) / 5 and ebird_score = probability / 100, and for a
\* rank in 1..5, a probability in [0,100] and weights that sum to 1 it lies in
\* [0,100].
C12_CombinedScoreInRange ==
    Scored =>
        \A i \in DOMAIN combined_scores :
            LET name == combined_scores[i].k
                s == combined_scores[i].v.combined_score
            IN  /\ RatMul(s, Num(5)) =
                     RatAdd(RatMul(Num(100 * (6 - RankOf(name))), llm_weight),
                            RatMul(RatMul(ProbabilityOf(name), Num(5)), ebird_weight))
                /\ (/\ RankOf(name) \in 1..5
                    /\ RatLe(Num(0), ProbabilityOf(name)) /\ RatLe(ProbabilityOf(name), Num(100))
                    /\ RatAdd(llm_weight, ebird_weight) = Num(1))
                   => (RatLe(Num(0), s) /\ RatLe(s, Num(100)))

\* C12 witness: both ends of the range in one result: a score of 100 and a score of 0.
C12_Witness ==
    /\ Scored
    /\ RatAdd(llm_weight, ebird_weight) = Num(1)
    /\ \E i, j \in DOMAIN combined_scores :
          /\ combined_scores[i].v.combined_score = Num(100)
          /\ combined_scores[j].v.combined_score = Num(0)

\* C13: the reported llm_score is 100 for rank 1 and 20 for rank 5, it is (6 - rank)
\* * 20 for every rank, whatever the weights and the probabilities, and of two
\* names the one of lower rank has the strictly higher llm_score.
C13_LlmScoreByRank ==
    Scored =>
        \A i, j \in DOMAIN combined_scores :
            LET a == combined_scores[i].v
                b == combined_scores[j].v
            IN  /\ a.llm_rank = RankOf(combined_scores[i].k)
                /\ a.llm_rank = 1 => a.llm_score = Num(100)
                /\ a.llm_rank = 5 => a.llm_score = Num(20)
                /\ a.llm_score = Num((6 - a.llm_rank) * 20)
                /\ a.llm_rank < b.llm_rank => RatLt(b.llm_score, a.llm_score)

\* C13 witness: a result with a name of rank 1 at llm_score 100 and a name of rank 5
\* at llm_score 20, under a weight that gives the language model no say.
C13_Witness ==
    /\ Scored
    /\ llm_weight = Num(0)
    /\ \E i, j \in DOMAIN combined_scores :
          /\ combined_scores[i].v.llm_rank = 1 /\ combined_scores[i].v.llm_score = Num(100)
          /\ combined_scores[j].v.llm_rank = 5 /\ combined_scores[j].v.llm_score = Num(20)
          /\ combined_scores[i].v.ebird_probability # combined_scores[j].v.ebird_probability

\* The scenario of C14: Carolina Wren first and House Wren second, 8 and 2 records
\* in the window, w_llm = 0.4 and w_ebird = 0.6
CarolinaHouseScenario ==
    /\ bird_suggestions = <<Bird(CarolinaWrenName), Bird(HouseWrenName)>>
    /\ sightings = Sightings(SeenOn(today, 8), SeenOn(today, 2))
    /\ llm_weight = Rat(2, 5)
    /\ ebird_weight = Rat(3, 5)

\* C14: in that scenario the counts are 8 and 2, the probabilities 80 and 20, and
\* the combined scores 88 for Carolina Wren and 44 for House Wren.
C14_CarolinaHouseScores ==
    (CarolinaHouseScenario /\ Scored) =>
        /\ observation_counts = <<[k |-> CarolinaWrenName, v |-> 8],
                                  [k |-> HouseWrenName, v |-> 2]>>
        /\ probabilities = Some(<<[k |-> CarolinaWrenName, v |-> Num(80)],
                                  [k |-> HouseWrenName, v |-> Num(20)]>>)
        /\ Len(combined_scores) = 2
        /\ combined_scores[1].k = CarolinaWrenName
        /\ combined_scores[1].v.combined_score = Num(88)
        /\ combined_scores[2].k = HouseWrenName
        /\ combined_scores[2].v.combined_score = Num(44)

\* C14 witness: the scenario has run to its end, Carolina Wren first at 88.
C14_Witness ==
    /\ CarolinaHouseScenario
    /\ spc = "done"
    /\ Len(sorted_results) = 2
    /\ sorted_results[1].k = CarolinaWrenName
    /\ sorted_results[1].v.combined_score = Num(88)
    /\ sorted_results[2].v.combined_score = Num(44)

\* A run that ended with no observation of any candidate
ZeroEvidence == spc = "done" /\ probabilities.tag = "Some" /\ TotalCount = 0

InRankOrder(results) ==
    \A i, j \in DOMAIN results : i < j => results[i].v.llm_rank < results[j].v.llm_rank

\* C15: when every count is zero, every probability is 0, each combined score is
\* llm_score * w_llm * 100, and the results sorted by combined score are in the
\* order of the language model's ranks, for every weight pair.
C15_ZeroEvidenceKeepsRankOrder ==
    ZeroEvidence =>
        /\ \A i \in DOMAIN probabilities.val : probabilities.val[i].v = Num(0)
        /\ \A i \in DOMAIN combined_scores :
              combined_scores[i].v.combined_score =
                  RatMul(combined_scores[i].v.llm_score, llm_weight)
        /\ InRankOrder(sorted_results)

\* What holds of the code, for reference: with zero evidence the sorted results are
\* in rank order whenever w_llm > 0 or no name occurs twice in the candidate list.
NoRepeatedName ==
    \A i, j \in DOMAIN bird_suggestions :
        (GetName(bird_suggestions[i], "common_name") # <<>>
            /\ GetName(bird_suggestions[i], "common_name")
                 = GetName(bird_suggestions[j], "common_name")) => i = j

ZeroEvidenceRankOrder ==
    (ZeroEvidence /\ (RatLt(Num(0), llm_weight) \/ NoRepeatedName))
        => InRankOrder(sorted_results)

\* The positions of a name in the candidate list, and the names given
Positions(name) ==
    {i \in DOMAIN bird_suggestions : GetName(bird_suggestions[i], "common_name") = name}

Max(S) == CHOOSE i \in S : \A j \in S : j <= i

NamesGiven ==
    {GetName(bird_suggestions[i], "common_name") : i \in DOMAIN bird_suggestions} \ {<<>>}

KeysOf(d) == {d[i].k : i \in DOMAIN d}
NoRepeatedKey(d) == \A i, j \in DOMAIN d : d[i].k = d[j].k => i = j

\* C16: the keys of the score mapping (and of the rank mapping) are the non-empty
\* common names of the list, each once; a candidate of empty name gives no key; a
\* name that occurs at several positions carries the rank of its last position.
C16_LastWriteWins ==
    Scored =>
        /\ NoRepeatedKey(combined_scores) /\ NoRepeatedKey(llm_ranks)
        /\ KeysOf(combined_scores) = NamesGiven /\ KeysOf(llm_ranks) = NamesGiven
        /\ \A i \in DOMAIN combined_scores :
              LET name == combined_scores[i].k
              IN  /\ DictGet(llm_ranks, name, 0) = Max(Positions(name))
                  /\ combined_scores[i].v.llm_rank = Max(Positions(name))
                  /\ combined_scores[i].v =
                        ScoreData(name, probabilities.val, llm_ranks, llm_weight, ebird_weight)

\* C16 witness: a name at two positions beside a candidate of empty name: one key,
\* of the later rank.
C16_Witness ==
    /\ Scored
    /\ \E i \in DOMAIN bird_suggestions : GetName(bird_suggestions[i], "common_name") = <<>>
    /\ \E i \in DOMAIN combined_scores :
          LET name == combined_scores[i].k
          IN  /\ Cardinality(Positions(name)) >= 2
              /\ combined_scores[i].v.llm_rank = Max(Positions(name))
              /\ \E j \in Positions(name) : j < combined_scores[i].v.llm_rank

\* --------------------------------------- calculate_probabilities: the inputs
\* A location descriptor that is coordinates or a region code
WellFormedLocation(loc) ==
    /\ loc # None
    /\ "type" \in DOMAIN loc.val
    /\ \/ loc.val.type = "coords" /\ {"latitude", "longitude"} \subseteq DOMAIN loc.val
       \/ loc.val.type = "region" /\ "region_code" \in DOMAIN loc.val

ProbabilitiesCallEnded == spc \in {"counted", "scored", "done"}

\* C17: a location that is neither coordinates nor a region code (no 'type', an
\* unknown 'type', a 'type' without its data) and an empty candidate list are
\* reported by an error, never by a returned mapping.
C17_InvalidInputSignalled ==
    (ProbabilitiesCallEnded /\ (bird_suggestions = <<>> \/ ~WellFormedLocation(location)))
        => probabilities.tag = "Raised"

\* What holds of the code, for reference: with a candidate list that is not empty,
\* a location without 'type' raises ValueError; a 'type' without its data raises
\* KeyError, but only once a candidate has resolved to a species code; an unknown
\* 'type' and an empty list return a mapping.
MissingTypeRaises ==
    (ProbabilitiesCallEnded /\ bird_suggestions # <<>> /\ LocationLacksType(location))
        => probabilities = Raised("ValueError")

UnknownTypeReturns ==
    (ProbabilitiesCallEnded /\ ~LocationLacksType(location)
        /\ location.val.type \notin {"coords", "region"})
        => (probabilities.tag = "Some" /\ TotalCount = 0)

\* C18: with a location that is coordinates or a region code, whatever the taxonomy
\* request, the observation requests and the dates of the records come to,
\* calculate_probabilities does not raise and its mapping has an entry for every
\* non-empty common name; a candidate met with no taxonomy is not resolved and
\* counts 0, and a failed or empty fetch counts 0.
C18_DegradesToZeroEvidence ==
    WellFormedLocation(location) =>
        /\ probabilities.tag # "Raised"
        /\ \A i \in DOMAIN log :
              /\ log[i].loaded = None => (log[i].code = None /\ log[i].count = 0)
              /\ log[i].fetch = "failed" => log[i].count = 0
              /\ (log[i].fetch = "ok" /\ Held(log[i].code.val) = <<>>) => log[i].count = 0
              /\ InDict(observation_counts, log[i].name)
        /\ HasProbabilities =>
              /\ Len(log) = Len(bird_suggestions)
              /\ \A name \in NamesGiven :
                    /\ InDict(probabilities.val, name)
                    /\ DictGet(observation_counts, name, 0 - 1)
                         = log[Max(Positions(name))].count

\* C18 witness: two candidates, the first met with no taxonomy, the second resolved
\* and its observation request failed: both are in the mapping, at 0.
C18_Witness ==
    /\ HasProbabilities
    /\ WellFormedLocation(location)
    /\ Len(log) = 2
    /\ log[1].name # log[2].name
    /\ log[1].loaded = None /\ fetches > 0
    /\ log[2].code.tag = "Some" /\ log[2].fetch = "failed"
    /\ probabilities.val = <<[k |-> log[1].name, v |-> Num(0)],
                             [k |-> log[2].name, v |-> Num(0)]>>

\* ------------------------------------- get_species_code: names and the cache
\* C19: a call with an empty or white-space-only common name returns None at
\* once, whatever the scientific name: it calls no _load_taxonomy, sends no
\* request and leaves the cache as it is.
C19_EmptyNameNoLookup ==
    [][\A t \in Threads :
          (calls'[t] # calls[t] /\ Strip(arg[t].bird_name) = <<>>) =>
              /\ pc'[t] = "done"
              /\ code'[t] = None
              /\ ret'[t] = NotCalled
              /\ fetches' = fetches
              /\ assigns' = assigns
              /\ taxonomy_cache' = taxonomy_cache]_vars

\* C19 witness: a white-space-only common name with a scientific name that is in
\* the taxonomy, the cache loaded by another caller: None, and one request only.
C19_Witness ==
    /\ pc[1] = "done"
    /\ arg[1].bird_name # <<>> /\ Strip(arg[1].bird_name) = <<>>
    /\ arg[1].scientific_name # <<>>
    /\ code[1] = None /\ ret[1] = NotCalled
    /\ taxonomy_cache # None
    /\ Resolve(taxonomy_cache.val, <<"z">>, arg[1].scientific_name) # None
    /\ fetches = 1

\* A name trimmed and lower-cased, and the taxonomy of the service with the names
\* of its rows trimmed and lower-cased
Normal(str) == Strip(Lower(str))

NormalTaxonomy ==
    TaxonomyBody([fmt |-> remote.fmt,
                  rows |-> [i \in Rows |-> [com |-> Normal(remote.rows[i].com),
                                            sci |-> Normal(remote.rows[i].sci),
                                            code |-> remote.rows[i].code]]]).rows

LowerTaxonomy ==
    TaxonomyBody([fmt |-> remote.fmt,
                  rows |-> [i \in Rows |-> [com |-> Lower(remote.rows[i].com),
                                            sci |-> Lower(remote.rows[i].sci),
                                            code |-> remote.rows[i].code]]]).rows

\* C20: names are compared trimmed and lower-cased on both sides: the result is
\* the result for the trimmed, lower-cased input names against the taxonomy with
\* its names trimmed and lower-cased.
C20_TrimmedAndLowerCasedBothSides ==
    Resolved =>
        code[1] = Resolve(NormalTaxonomy, Normal(arg[1].bird_name),
                          Normal(arg[1].scientific_name))

\* What holds of the code, for reference: the input names are trimmed and
\* lower-cased, the names of the taxonomy are lower-cased only.
InputsTrimmedEntriesLowerCased ==
    Resolved =>
        code[1] = Resolve(LowerTaxonomy, Normal(arg[1].bird_name),
                          Normal(arg[1].scientific_name))

\* ------------------------------------------------------ main: the final order
\* A run that came to its sorted results
Sorted == spc = "done" /\ probabilities.tag = "Some"

ScoreAt(results, i) == results[i].v.combined_score

IsPermutation(results, d) ==
    /\ Len(results) = Len(d)
    /\ \A i \in DOMAIN d : \E j \in DOMAIN results : results[j] = d[i]

\* C21: the results are the scored candidates ordered by combined score
\* descending, and of two candidates of equal combined score the one of the better
\* (lower) language-model rank comes first.
C21_ResultOrdering ==
    Sorted =>
        /\ IsPermutation(sorted_results, combined_scores)
        /\ \A i, j \in DOMAIN sorted_results :
              i < j =>
                  /\ RatLe(ScoreAt(sorted_results, j), ScoreAt(sorted_results, i))
                  /\ ScoreAt(sorted_results, i) = ScoreAt(sorted_results, j)
                        => sorted_results[i].v.llm_rank < sorted_results[j].v.llm_rank

\* What holds of the code, for reference: the results are a permutation of the
\* scored candidates in descending order of combined score, equal scores in the
\* order of first occurrence in the candidate list; that is the rank order when
\* no name occurs twice.
ResultOrderByFirstOccurrence ==
    Sorted =>
        /\ IsPermutation(sorted_results, combined_scores)
        /\ \A i, j \in DOMAIN sorted_results :
              i < j =>
                  /\ RatLe(ScoreAt(sorted_results, j), ScoreAt(sorted_results, i))
                  /\ ScoreAt(sorted_results, i) = ScoreAt(sorted_results, j)
                        => /\ Min(Positions(sorted_results[i].k))
                                < Min(Positions(sorted_results[j].k))
                           /\ NoRepeatedName =>
                                 sorted_results[i].v.llm_rank < sorted_results[j].v.llm_rank

\* ------------------------------------------- get_bird_suggestions: claims
Returned5 == mistral_result.tag = "Some"
Taken == mpc = "taken"

NameAt(list, i) == GetName(list[i], "common_name")

\* The entries of non-empty name, in their order
NamedEntries(list) == SelectSeq(list, LAMBDA b : GetName(b, "common_name") # <<>>)

\* C22: a returned suggestion list has exactly 5 entries, those of non-empty name
\* in front of the empty ones; the candidate list main keeps is those entries, 1
\* to 5 of them; every rank built from it is in 1..5 and every reported llm_score
\* is between 20 and 100.
C22_RankBound ==
    /\ Returned5 =>
          LET s == mistral_result.val.suggestions
          IN  /\ Len(s) = 5
              /\ \A i, j \in DOMAIN s : (i < j /\ NameAt(s, j) # <<>>) => NameAt(s, i) # <<>>
    /\ Taken =>
          /\ Len(bird_suggestions) \in 1..5
          /\ \A i \in DOMAIN bird_suggestions : NameAt(bird_suggestions, i) # <<>>
          /\ bird_suggestions = NamedEntries(mistral_result.val.suggestions)
    /\ (Taken /\ Scored) =>
          /\ llm_ranks # <<>>
          /\ \A i \in DOMAIN llm_ranks : llm_ranks[i].v \in 1..5
          /\ \A i \in DOMAIN combined_scores :
                /\ combined_scores[i].v.llm_rank \in 1..5
                /\ RatLe(Num(20), combined_scores[i].v.llm_score)
                /\ RatLe(combined_scores[i].v.llm_score, Num(100))

\* C22 witness: the language model answered six species lines; five candidates are
\* kept and the last of them has rank 5 and llm_score 20.
C22_Witness ==
    /\ Taken /\ Scored
    /\ posts[Len(posts)].outcome.body = Some(SixBirds)
    /\ Len(ParseLines(SplitOn(SixBirds, "\n"))) = 6
    /\ Len(bird_suggestions) = 5
    /\ \E i \in DOMAIN combined_scores :
          /\ combined_scores[i].k = NameAt(bird_suggestions, 5)
          /\ combined_scores[i].v.llm_rank = 5
          /\ combined_scores[i].v.llm_score = Num(20)

\* The outcomes of a request, as C23 sorts them
Is400Or404(o) == o.kind = "response" /\ o.status \in {400, 404}
OtherHttpError(o) == o.kind = "response" /\ o.status >= 400 /\ o.status \notin {400, 404}
NonHttpFailure(o) ==
    \/ o.kind = "raise"
    \/ o.kind = "response" /\ o.status < 400 /\ o.body = None
ParsesToNone(o) ==
    /\ o.kind = "response" /\ o.status < 400 /\ o.body # None
    /\ parse_structured_bird_suggestions(Strip(o.body.val)) = <<>>
Yields(o) ==
    /\ o.kind = "response" /\ o.status < 400 /\ o.body # None
    /\ parse_structured_bird_suggestions(Strip(o.body.val)) # <<>>

LastModel == Len(models_to_try)
MovesOn(i) ==
    \/ Is400Or404(posts[i].outcome)
    \/ ParsesToNone(posts[i].outcome)
    \/ NonHttpFailure(posts[i].outcome) /\ i < LastModel

CallEnded == mpc \in {"ended", "taken", "rejected"} /\ posts # <<>>

AbortsOnServerError ==
    /\ CallEnded
    /\ Len(posts) = 1
    /\ OtherHttpError(posts[1].outcome) /\ posts[1].outcome.status = 500
    /\ mistral_result = Raised("HTTPError")

\* ----------------------------- get_species_code: entries without code or name
\* The taxonomy of the service without the rows that have no species code
CodedTaxonomy ==
    TaxonomyBody([fmt |-> remote.fmt,
                  rows |-> SelectSeq(remote.rows, LAMBDA e : e.code # <<>>)]).rows

\* C24: no call returns an empty identifier; a returned id is the species code of
\* a row that has one, and the result is the result against the taxonomy without
\* the rows of empty or missing species code: every strategy passes over them.
C24_NeverEmptyId ==
    /\ \A t \in Threads : code[t] # Some(<<>>)
    /\ Resolved =>
          /\ code[1] \in {None} \cup {Some(RowCode(i)) : i \in Coded}
          /\ code[1] = Resolve(CodedTaxonomy, arg[1].bird_name, arg[1].scientific_name)

\* C24 witness: the input equals the common name of a row without species code,
\* and the id of a later row, matched by a later strategy, is returned.
C24_Witness ==
    /\ Resolved
    /\ \E i \in NameExact \ Coded :
          \E j \in Coded \ NameExact : i < j /\ code[1] = Some(RowCode(j))

\* The rows with a name that the input equals, contains or is contained in
NamedCommonRelated ==
    {i \in Rows : RowCom(i) # <<>>
                    /\ (Contains(RowCom(i), InName) \/ Contains(InName, RowCom(i)))}
NamedScientificRelated ==
    {i \in Rows : RowSci(i) # <<>> /\ InSci # <<>>
                    /\ (Contains(RowSci(i), InSci) \/ Contains(InSci, RowSci(i)))}

\* C25: a returned id is the id of a row that has a non-empty common name equal
\* to, containing or contained in the input common name, or a non-empty scientific
\* name so related to the input scientific name; with no such row the result is
\* None.
C25_OnlyRealNameRelation ==
    Resolved =>
        /\ code[1] # None =>
              \E i \in NamedCommonRelated \cup NamedScientificRelated :
                  code[1] = Some(RowCode(i))
        /\ NamedCommonRelated \cup NamedScientificRelated = {} => code[1] = None

\* What holds of the code, for reference: the empty string is a substring of every
\* input, so a row without common name (without scientific name, when a scientific
\* name is given) matches every input in the substring strategies; C25 holds when
\* every row that has a species code has both names.
AllNamed == \A i \in Coded : RowCom(i) # <<>> /\ RowSci(i) # <<>>

OnlyRealNameRelationWhenAllNamed ==
    (Resolved /\ AllNamed) =>
        /\ code[1] # None =>
              \E i \in NamedCommonRelated \cup NamedScientificRelated :
                  code[1] = Some(RowCode(i))
        /\ NamedCommonRelated \cup NamedScientificRelated = {} => code[1] = None

====
